---- MODULE Spec2Model ----
(***************************************************************************)
(* Entity metadata resolution, property marshaling and the persistent /   *)
(* editable lifecycle of Entity (source/backend/Entity.ts).               *)
(*                                                                         *)
(* JavaScript values are modelled with an explicit heap: a slot holds      *)
(* either a primitive or a reference to a heap object, so that sharing of  *)
(* arrays and objects between a raw bag, an Entity and its copies is       *)
(* visible.  Entity.ts is an ES module, hence strict-mode code: a write to *)
(* a frozen object throws a TypeError.                                     *)
(***************************************************************************)
EXTENDS Integers, Sequences, FiniteSets, TLC

VARIABLES
    registry,    \* iModel.classMetaDataRegistry: per iModel, class name -> EntityMetaData
    enumCall,    \* the last explicit EntityMetaData.forEach call and what it did
    heap,        \* the JavaScript heap: address -> object
    entities,    \* the Entity instances constructed so far
    lastOp,      \* the last operation on an Entity and its outcome
    nWrites,     \* successful property assignments so far
    nMutations,  \* in-place changes of heap objects so far
    marshalCall, \* the last explicit createProperty call and what it returned
    frames,      \* the classes of the forEach invocations on the call stack
    lookup,      \* the find calls in progress and the identity of each cached Class Metadata
    admin,       \* EditCommandAdmin, the EditCommand instances and the calls made to them
    dxt          \* the last _loadDXT call and the levels it uploaded

vars == <<registry, enumCall, heap, entities, lastOp, nWrites, nMutations, marshalCall, frames,
          lookup, admin, dxt>>

-----------------------------------------------------------------------------
(* Bounds of the model *)

MaxEntities == 2
MaxLoaded == 1
MaxWrites == 1
MaxMutations == 1
MaxHeap == 5
MaxStack == 4
MaxCallers == 2
MaxLookups == 3
MaxCommands == 3
MaxRuns == 3
MaxLevels == 3

-----------------------------------------------------------------------------
(* PrimitiveTypeCode *)

PrimitiveTypeCode_Uninitialized == 0
PrimitiveTypeCode_Binary == 257
PrimitiveTypeCode_Boolean == 513
PrimitiveTypeCode_DateTime == 769
PrimitiveTypeCode_Double == 1025
PrimitiveTypeCode_Integer == 1281
PrimitiveTypeCode_Long == 1537
PrimitiveTypeCode_Point2d == 1793
PrimitiveTypeCode_Point3d == 2049
PrimitiveTypeCode_String == 2305

-----------------------------------------------------------------------------
(* JavaScript values *)

Prim(p) == [k |-> p, a |-> 0]
Ref(n) == [k |-> "ref", a |-> n]
undefined == Prim("undefined")
\* the marker of "no own property of that name" in a property map
NoSlot == [k |-> "absent", a |-> 0]

IsRef(v) == v.k = "ref"

\* the values for which !jsonObj is true
Falsy == {Prim("undefined"), Prim("null"), Prim("false"), Prim("0"), Prim("''")}

\* obj[name]: reading a missing property yields undefined
Get(obj, name) == IF obj[name] = NoSlot THEN undefined ELSE obj[name]

\* the object a value refers to, as a tree: what a reader sees through it
RECURSIVE Deep(_, _)
Deep(v, h) ==
    IF IsRef(v)
    THEN [k |-> h[v.a].kind,
          sub |-> [i \in 1..Len(h[v.a].elems) |-> Deep(h[v.a].elems[i], h)]]
    ELSE [k |-> v.k, sub |-> <<>>]

\* the addresses reachable from a value
RECURSIVE Reach(_, _)
Reach(v, h) ==
    IF IsRef(v)
    THEN {v.a} \cup UNION {Reach(h[v.a].elems[i], h) : i \in 1..Len(h[v.a].elems)}
    ELSE {}

-----------------------------------------------------------------------------
(* The schema JSON the schema-loading collaborator supplies *)

Null == -1                 \* a numeric JSON field that is absent
NoDirection == "(none)"    \* the direction field when absent

PropJson(pt, custom, orphan, minO, maxO, dir) ==
    [primitiveType |-> pt, isCustomHandled |-> custom, isCustomHandledOrphan |-> orphan,
     minOccurs |-> minO, maxOccurs |-> maxO, direction |-> dir]

Prop(name, json) == [name |-> name, json |-> json]

ClassJson ==
    [c \in {"T:Base", "T:Mid", "T:Leaf", "T:Mixin", "T:Stray", "T:Ping", "T:Pong",
            "T:Shadow"} |->
       CASE c = "T:Base" ->
              [ecclass |-> "Base", baseClasses |-> <<>>,
               properties |-> <<
                 Prop("code", PropJson(PrimitiveTypeCode_String, FALSE, FALSE, Null, Null, NoDirection)),
                 Prop("tags", PropJson(PrimitiveTypeCode_String, FALSE, FALSE, 0, 4, NoDirection)),
                 Prop("secret", PropJson(PrimitiveTypeCode_Boolean, TRUE, FALSE, Null, Null, NoDirection)) >>]
         [] c = "T:Mid" ->
              [ecclass |-> "Mid", baseClasses |-> <<"T:Base", "T:Mixin">>,
               properties |-> <<
                 Prop("origin", PropJson(PrimitiveTypeCode_Point3d, FALSE, FALSE, Null, Null, NoDirection)),
                 Prop("", PropJson(PrimitiveTypeCode_String, FALSE, FALSE, Null, Null, NoDirection)),
                 Prop("parent", PropJson(PrimitiveTypeCode_Uninitialized, FALSE, FALSE, Null, Null, "forward")) >>]
         [] c = "T:Leaf" ->
              [ecclass |-> "Leaf", baseClasses |-> <<"T:Mid">>,
               properties |-> <<
                 Prop("path", PropJson(PrimitiveTypeCode_Point3d, FALSE, FALSE, 0, 4, NoDirection)),
                 Prop("blob", PropJson(PrimitiveTypeCode_Binary, FALSE, FALSE, Null, Null, NoDirection)),
                 Prop("legacy", PropJson(PrimitiveTypeCode_String, TRUE, TRUE, Null, Null, NoDirection)) >>]
         [] c = "T:Mixin" ->
              [ecclass |-> "Mixin", baseClasses |-> <<>>,
               properties |-> <<
                 Prop("mixProp", PropJson(PrimitiveTypeCode_String, FALSE, FALSE, Null, Null, NoDirection)) >>]
         [] c = "T:Stray" ->
              [ecclass |-> "Stray", baseClasses |-> <<"T:Gone", "T:Mixin">>,
               properties |-> <<
                 Prop("note", PropJson(PrimitiveTypeCode_String, FALSE, FALSE, Null, Null, NoDirection)) >>]
         [] c = "T:Ping" ->
              [ecclass |-> "Ping", baseClasses |-> <<"T:Pong">>,
               properties |-> <<
                 Prop("ping", PropJson(PrimitiveTypeCode_String, FALSE, FALSE, Null, Null, NoDirection)) >>]
         [] c = "T:Pong" ->
              [ecclass |-> "Pong", baseClasses |-> <<"T:Ping">>,
               properties |-> <<
                 Prop("pong", PropJson(PrimitiveTypeCode_String, FALSE, FALSE, Null, Null, NoDirection)) >>]
         [] c = "T:Shadow" ->
              [ecclass |-> "Shadow", baseClasses |-> <<"T:Base">>,
               properties |-> <<
                 Prop("code", PropJson(PrimitiveTypeCode_Point3d, FALSE, FALSE, Null, Null, NoDirection)),
                 Prop("note", PropJson(PrimitiveTypeCode_String, FALSE, FALSE, Null, Null, NoDirection)) >>]]

IModels == {"db1", "db2"}

\* the classes the schema-loading collaborator can materialize in each iModel;
\* "db3" holds a malformed schema: two classes that are each other's base class;
\* T:Shadow declares a property under a name its base class declares too
Loadable(m) ==
    IF m = "db1" THEN {"T:Base", "T:Mid", "T:Leaf", "T:Mixin", "T:Stray", "T:Shadow"}
    ELSE IF m = "db3" THEN {"T:Ping", "T:Pong"}
    ELSE {"T:Base"}

\* every class name a caller may ask for ("T:Gone" exists nowhere)
ClassNames == {"T:Base", "T:Mid", "T:Leaf", "T:Mixin", "T:Stray", "T:Gone"}

-----------------------------------------------------------------------------
(* PropertyMetaData and EntityMetaData *)

\* new PropertyMetaData(jsonObj): isCustomHandledOrphan is declared and never assigned
PropertyMetaData(jsonObj) ==
    [primitiveType |-> jsonObj.primitiveType,
     isCustomHandled |-> jsonObj.isCustomHandled,
     isCustomHandledOrphan |-> FALSE,
     minOccurs |-> jsonObj.minOccurs,
     maxOccurs |-> jsonObj.maxOccurs,
     direction |-> jsonObj.direction]

\* for (const propName in jsonObj.properties) if (propName) ...
RECURSIVE MetaProperties(_)
MetaProperties(props) ==
    IF props = <<>> THEN <<>>
    ELSE LET p == Head(props) IN
         (IF p.name # ""
          THEN <<[name |-> p.name, meta |-> PropertyMetaData(p.json)]>>
          ELSE <<>>) \o MetaProperties(Tail(props))

\* new EntityMetaData(jsonObj)
EntityMetaData(jsonObj) ==
    [ecclass |-> jsonObj.ecclass,
     baseClasses |-> jsonObj.baseClasses,
     properties |-> MetaProperties(jsonObj.properties)]

-----------------------------------------------------------------------------
(* The Class Metadata Registry *)

\* classMetaDataRegistry.find(classFullName): the cached entry; on a miss the
\* metadata is materialized from the schema JSON and cached; undefined otherwise
Find(reg, m, classFullName) ==
    IF classFullName \in DOMAIN reg[m]
    THEN [found |-> TRUE, meta |-> reg[m][classFullName], reg |-> reg]
    ELSE IF classFullName \in Loadable(m)
    THEN LET made == EntityMetaData(ClassJson[classFullName]) IN
         [found |-> TRUE, meta |-> made,
          reg |-> [reg EXCEPT ![m] =
                     [c \in DOMAIN reg[m] \cup {classFullName} |->
                        IF c = classFullName THEN made ELSE reg[m][c]]]]
    ELSE [found |-> FALSE, meta |-> EntityMetaData(ClassJson["T:Mixin"]), reg |-> reg]

\* whether find would return metadata for the name
CanFind(reg, m, classFullName) ==
    classFullName \in DOMAIN reg[m] \cup Loadable(m)

-----------------------------------------------------------------------------
(* The Property Enumerator *)

\* the test in front of func(propName, propMeta)
Visible(propMeta, includeCustom) ==
    includeCustom \/ ~propMeta.isCustomHandled \/ propMeta.isCustomHandledOrphan

\* the for-in loop over meta.properties: the calls of func, in order
RECURSIVE OwnVisits(_, _, _)
OwnVisits(props, owner, includeCustom) ==
    IF props = <<>> THEN <<>>
    ELSE LET p == Head(props) IN
         (IF p.name # "" /\ Visible(p.meta, includeCustom)
          THEN <<[name |-> p.name, meta |-> p.meta, owner |-> owner]>>
          ELSE <<>>) \o OwnVisits(Tail(props), owner, includeCustom)

\* a recursion into the last entry of baseClasses instead of the first
LastBaseClass(baseClasses) == baseClasses[Len(baseClasses)]

\* meta.baseClasses[0]: the entry of baseClasses the enumeration recurses into
SuperClass(baseClasses) == baseClasses[1]

\* a recursion that does not look at wantSuper
AlwaysSuper(wantSuper, baseClasses) == Len(baseClasses) > 0

\* an enumeration that never goes on to the base class
NeverSuper(wantSuper, baseClasses) == FALSE

\* wantSuper && meta.baseClasses && meta.baseClasses.length > 0
WantSuper(wantSuper, baseClasses) == wantSuper /\ Len(baseClasses) > 0

\* the recursive call placed before the loop over the class's own properties
SuperThenOwn(own, super) == super \o own

\* the loop over the class's own properties runs before the recursive call
OwnThenSuper(own, super) == own \o super

\* a failed lookup taken for a class without properties
SwallowLookupFailure(classFullName, reg) ==
    [visits |-> <<>>, resolved |-> <<classFullName>>, err |-> "none", reg |-> reg]

\* what a failed lookup does to the enumeration
MetaDataNotFound(classFullName, reg) ==
    [visits |-> <<>>, resolved |-> <<classFullName>>, err |-> "MetaDataNotFound", reg |-> reg]

\* EntityMetaData.forEach: the calls of func (visits), the names given to find
\* (resolved), the error thrown if any, and the registry afterwards
RECURSIVE forEach(_, _, _, _, _)
forEach(reg, iModel, classFullName, wantSuper, includeCustom) ==
    LET f == Find(reg, iModel, classFullName) IN
    IF ~f.found THEN MetaDataNotFound(classFullName, f.reg)
    ELSE LET own == OwnVisits(f.meta.properties, classFullName, includeCustom) IN
         IF WantSuper(wantSuper, f.meta.baseClasses)
         THEN LET r == forEach(f.reg, iModel, SuperClass(f.meta.baseClasses), TRUE, includeCustom) IN
              [visits |-> OwnThenSuper(own, r.visits),
               resolved |-> <<classFullName>> \o r.resolved,
               err |-> r.err,
               reg |-> r.reg]
         ELSE [visits |-> own, resolved |-> <<classFullName>>, err |-> "none", reg |-> f.reg]

-----------------------------------------------------------------------------
(* The Property Marshaler *)

NoError(v, h) == [val |-> v, heap |-> h, err |-> "none"]
TypeError(h) == [val |-> undefined, heap |-> h, err |-> "TypeError"]

Numbers == {"0", "1", "2", "3", "4", "5", "6", "9"}

\* Point2d.fromJSON / Point3d.fromJSON: a new point whose coordinates are read from
\* the x, y, z members (or the first elements) of json, 0 where there is none
fromJSON(kind, json, h) ==
    LET dim == IF kind = "Point2d" THEN 2 ELSE 3
        src == IF IsRef(json) THEN h[json.a].elems ELSE <<>>
    IN  [kind |-> kind,
         elems |-> [i \in 1..dim |->
                      IF i <= Len(src) /\ src[i].k \in Numbers THEN src[i] ELSE Prim("0")]]

\* new Id64(jsonObj): an identifier holding the value of a string or of another Id64
Id64(jsonObj, h) ==
    [kind |-> "Id64",
     elems |-> << IF ~IsRef(jsonObj) THEN jsonObj
                  ELSE IF h[jsonObj.a].kind = "Id64" THEN h[jsonObj.a].elems[1]
                  ELSE Prim("invalid") >>]

\* a conversion of sequences that fills the result from the last element to the first
createValueOrArrayReversed(meta, kind, jsonObj, h) ==
    IF meta.minOccurs = Null
    THEN NoError(Ref(Len(h) + 1), Append(h, fromJSON(kind, jsonObj, h)))
    ELSE IF ~(IsRef(jsonObj) /\ h[jsonObj.a].kind = "Array")
    THEN TypeError(h)
    ELSE LET src == h[jsonObj.a].elems
             at == Len(h) + 1
         IN  NoError(Ref(at),
                     h \o <<[kind |-> "Array", elems |-> [i \in 1..Len(src) |-> Ref(at + i)]]>>
                       \o [i \in 1..Len(src) |-> fromJSON(kind, src[Len(src) + 1 - i], h)])

\* createValueOrArray(func, jsonObj): func is the fromJSON of the point class `kind`.
\* jsonObj.forEach exists on arrays only; calling it on anything else throws.
createValueOrArray(meta, kind, jsonObj, h) ==
    IF meta.minOccurs = Null
    THEN NoError(Ref(Len(h) + 1), Append(h, fromJSON(kind, jsonObj, h)))
    ELSE IF ~(IsRef(jsonObj) /\ h[jsonObj.a].kind = "Array")
    THEN TypeError(h)
    ELSE LET src == h[jsonObj.a].elems
             at == Len(h) + 1
         IN  NoError(Ref(at),
                     h \o <<[kind |-> "Array", elems |-> [i \in 1..Len(src) |-> Ref(at + i)]]>>
                       \o [i \in 1..Len(src) |-> fromJSON(kind, src[i], h)])

\* the test that makes createProperty return undefined
IsAbsent(jsonObj) == jsonObj \in Falsy

\* a marshaler that wraps every raw value in a new one-element array
createPropertyBoxed(meta, jsonObj, h) ==
    NoError(Ref(Len(h) + 1), Append(h, [kind |-> "Array", elems |-> <<jsonObj>>]))

\* a marshaler that looks at the navigation direction before the primitive type
createPropertyDirectionFirst(meta, jsonObj, h) ==
    IF IsAbsent(jsonObj) THEN NoError(undefined, h)
    ELSE IF meta.direction # NoDirection
    THEN NoError(Ref(Len(h) + 1), Append(h, Id64(jsonObj, h)))
    ELSE IF meta.primitiveType = PrimitiveTypeCode_Point2d
    THEN createValueOrArray(meta, "Point2d", jsonObj, h)
    ELSE IF meta.primitiveType = PrimitiveTypeCode_Point3d
    THEN createValueOrArray(meta, "Point3d", jsonObj, h)
    ELSE NoError(jsonObj, h)

\* PropertyMetaData.createProperty(jsonObj)
createProperty(meta, jsonObj, h) ==
    IF IsAbsent(jsonObj) THEN NoError(undefined, h)
    ELSE IF meta.primitiveType \in {PrimitiveTypeCode_Boolean, PrimitiveTypeCode_Double,
                                    PrimitiveTypeCode_Integer, PrimitiveTypeCode_String}
    THEN NoError(jsonObj, h)
    ELSE IF meta.primitiveType = PrimitiveTypeCode_Point2d
    THEN createValueOrArray(meta, "Point2d", jsonObj, h)
    ELSE IF meta.primitiveType = PrimitiveTypeCode_Point3d
    THEN createValueOrArray(meta, "Point3d", jsonObj, h)
    ELSE IF meta.direction # NoDirection
    THEN NoError(Ref(Len(h) + 1), Append(h, Id64(jsonObj, h)))
    ELSE NoError(jsonObj, h)

-----------------------------------------------------------------------------
(* Entity *)

\* the property names of the schema, and the names a caller may use besides
PropNames == {"code", "tags", "secret", "origin", "parent", "path", "blob", "legacy",
              "mixProp", "note"}
SlotNames == PropNames \cup {"id", "bogus"}

NoSlots == [n \in SlotNames |-> NoSlot]

\* a constructor that leaves out the properties whose key the bag does not have
RECURSIVE CopyPresentProperties(_, _, _, _)
CopyPresentProperties(visits, props, slots, h) ==
    IF visits = <<>> THEN [slots |-> slots, heap |-> h, err |-> "none", failedIn |-> ""]
    ELSE IF props[Head(visits).name] = NoSlot
    THEN CopyPresentProperties(Tail(visits), props, slots, h)
    ELSE CHOOSE done \in
           { IF p.err # "none"
             THEN [slots |-> slots, heap |-> h, err |-> p.err, failedIn |-> Head(visits).owner]
             ELSE CopyPresentProperties(Tail(visits), props,
                                        [slots EXCEPT ![Head(visits).name] = p.val], p.heap) :
               p \in {createProperty(Head(visits).meta, props[Head(visits).name], h)} } : TRUE

\* a constructor that keeps the first value assigned under a name
RECURSIVE CopyFirstDeclaration(_, _, _, _)
CopyFirstDeclaration(visits, props, slots, h) ==
    IF visits = <<>> THEN [slots |-> slots, heap |-> h, err |-> "none", failedIn |-> ""]
    ELSE IF slots[Head(visits).name] # NoSlot
    THEN CopyFirstDeclaration(Tail(visits), props, slots, h)
    ELSE CHOOSE done \in
           { IF p.err # "none"
             THEN [slots |-> slots, heap |-> h, err |-> p.err, failedIn |-> Head(visits).owner]
             ELSE CopyFirstDeclaration(Tail(visits), props,
                                       [slots EXCEPT ![Head(visits).name] = p.val], p.heap) :
               p \in {createProperty(Head(visits).meta, Get(props, Head(visits).name), h)} } : TRUE

\* a constructor that copies every key of the bag onto the instance
CopyEveryKey(visits, props, slots, h) ==
    [slots |-> props, heap |-> h, err |-> "none", failedIn |-> ""]

\* the callback of the constructor, applied to the calls of func in order:
\* this[propName] = meta.createProperty(props[propName]); a throw ends the loop
RECURSIVE CopyProperties(_, _, _, _)
CopyProperties(visits, props, slots, h) ==
    IF visits = <<>> THEN [slots |-> slots, heap |-> h, err |-> "none", failedIn |-> ""]
    ELSE LET v == Head(visits) IN
         CHOOSE done \in
           { IF p.err # "none"
             THEN [slots |-> slots, heap |-> h, err |-> p.err, failedIn |-> v.owner]
             ELSE CopyProperties(Tail(visits), props,
                                 [slots EXCEPT ![v.name] = p.val], p.heap) :
               p \in {createProperty(v.meta, Get(props, v.name), h)} } : TRUE

\* the registry after the lookups made up to and including that of class `last`
RECURSIVE FindUpTo(_, _, _, _)
FindUpTo(reg, m, resolved, last) ==
    IF resolved = <<>> THEN reg
    ELSE LET after == Find(reg, m, Head(resolved)).reg IN
         IF Head(resolved) = last THEN after
         ELSE FindUpTo(after, m, Tail(resolved), last)

\* whether a new instance starts out persistent
InitialPersistent == FALSE

\* new Entity(props): props.iModel is iModel, props[name] is props[name]
Entity(reg, h, iModel, cls, props) ==
    CHOOSE made \in
      { CHOOSE copied \in
          { [err |-> IF c.err # "none" THEN c.err ELSE e.err,
             reg |-> IF c.err # "none" THEN FindUpTo(reg, iModel, e.resolved, c.failedIn)
                     ELSE e.reg,
             heap |-> c.heap,
             obj |-> [cls |-> cls, iModel |-> iModel, persistent |-> InitialPersistent,
                      frozen |-> FALSE, slots |-> c.slots]] :
              c \in {CopyProperties(e.visits, props, NoSlots, h)} } : TRUE :
          e \in {forEach(reg, iModel, cls, TRUE, FALSE)} } : TRUE

\* val[propName] = value on a plain object that keeps insertion order
Put(obj, name, value) ==
    IF \E i \in 1..Len(obj) : obj[i].name = name
    THEN [i \in 1..Len(obj) |-> IF obj[i].name = name THEN [name |-> name, val |-> value] ELSE obj[i]]
    ELSE Append(obj, [name |-> name, val |-> value])

RECURSIVE PutAll(_, _, _)
PutAll(obj, visits, slots) ==
    IF visits = <<>> THEN obj
    ELSE CHOOSE done \in
           { PutAll(val, Tail(visits), slots) :
               val \in {Put(obj, Head(visits).name, Get(slots, Head(visits).name))} } : TRUE

\* a toJSON() that enumerates the custom-handled properties too
toJSONWithCustom(reg, e) ==
    CHOOSE done \in
      { [err |-> r.err,
         reg |-> r.reg,
         val |-> IF r.err # "none" THEN <<>>
                 ELSE PutAll(<<[name |-> "classFullName", val |-> Prim(e.cls)]>>,
                             r.visits, e.slots)] :
          r \in {forEach(reg, e.iModel, e.cls, TRUE, TRUE)} } : TRUE

\* Entity.toJSON()
toJSON(reg, e) ==
    CHOOSE done \in
      { [err |-> r.err,
         reg |-> r.reg,
         val |-> IF r.err # "none" THEN <<>>
                 ELSE PutAll(<<[name |-> "classFullName", val |-> Prim(e.cls)]>>,
                             r.visits, e.slots)] :
          r \in {forEach(reg, e.iModel, e.cls, TRUE, FALSE)} } : TRUE

\* setPersistent() without the Object.freeze(this)
NoFreeze == FALSE

\* Object.freeze(this) in setPersistent
Freeze == TRUE

\* setPersistent() that freezes the instance and leaves the flag as it was
setPersistentNoFlag(e) ==
    IF e.frozen THEN [err |-> "TypeError", obj |-> e]
    ELSE [err |-> "none", obj |-> [e EXCEPT !.frozen = Freeze]]

\* setPersistent() that returns at once when the instance is persistent already
setPersistentOnce(e) ==
    IF e.persistent THEN [err |-> "none", obj |-> e]
    ELSE [err |-> "none", obj |-> [e EXCEPT !.persistent = TRUE, !.frozen = Freeze]]

\* Entity.setPersistent(): on a frozen instance the assignment throws
setPersistent(e) ==
    IF e.frozen THEN [err |-> "TypeError", obj |-> e]
    ELSE [err |-> "none", obj |-> [e EXCEPT !.persistent = TRUE, !.frozen = Freeze]]

\* Entity.isPersistent()
isPersistent(e) == e.persistent

\* the state before any call
NoCall ==
    [called |-> FALSE, iModel |-> "db1", cls |-> "T:Base", wantSuper |-> FALSE,
     includeCustom |-> FALSE, visits |-> <<>>, resolved |-> <<>>, err |-> "none"]

EmptyRegistry == [m \in IModels |-> <<>>]

\* the state before any explicit createProperty call
NoMarshalCall ==
    [called |-> FALSE, meta |-> PropertyMetaData(PropJson(PrimitiveTypeCode_Uninitialized, FALSE, FALSE, Null, Null, NoDirection)),
     jsonObj |-> undefined, val |-> undefined, err |-> "none"]

-----------------------------------------------------------------------------
(* The raw property bags the storage collaborator supplies *)

\* the raw value under each key, allocated on the heap where it is an object
RawValue(key, h) ==
    CASE key = "tags" ->
           [val |-> Ref(Len(h) + 1),
            heap |-> Append(h, [kind |-> "Array", elems |-> <<Prim("'s'")>>])]
      [] key = "origin" ->
           [val |-> Ref(Len(h) + 1),
            heap |-> Append(h, [kind |-> "Object", elems |-> <<Prim("1"), Prim("2"), Prim("3")>>])]
      [] key = "path" ->
           [val |-> Ref(Len(h) + 1),
            heap |-> h \o <<[kind |-> "Array", elems |-> <<Ref(Len(h) + 2)>>],
                            [kind |-> "Object", elems |-> <<Prim("4"), Prim("5"), Prim("6")>>]>>]
      [] key = "blob" ->
           [val |-> Ref(Len(h) + 1),
            heap |-> Append(h, [kind |-> "Object", elems |-> <<Prim("'s'")>>])]
      [] key = "parent" -> [val |-> Prim("'0x1'"), heap |-> h]
      [] key = "secret" -> [val |-> Prim("true"), heap |-> h]
      [] OTHER -> [val |-> Prim("'s'"), heap |-> h]

KeyOrder == <<"code", "tags", "secret", "origin", "parent", "path", "blob", "legacy",
              "mixProp", "note", "bogus">>

\* the bag with the given keys; the keys in `nulls` hold null
RECURSIVE MakeBag(_, _, _, _, _)
MakeBag(order, keys, nulls, bag, h) ==
    IF order = <<>> THEN [bag |-> bag, heap |-> h]
    ELSE IF Head(order) \in keys \cap nulls
    THEN MakeBag(Tail(order), keys, nulls, [bag EXCEPT ![Head(order)] = Prim("null")], h)
    ELSE IF Head(order) \in keys
    THEN CHOOSE done \in
           { MakeBag(Tail(order), keys, nulls, [bag EXCEPT ![Head(order)] = r.val], r.heap) :
               r \in {RawValue(Head(order), h)} } : TRUE
    ELSE MakeBag(Tail(order), keys, nulls, bag, h)

\* the key sets of the bags tried
BagChoices ==
    { {},
      {"code", "tags", "secret", "origin", "parent", "path", "blob", "legacy", "mixProp",
       "note", "bogus"} }

\* the keys whose value is null in the bags tried
NullChoices == { {}, {"code", "origin", "path"} }

\* the classes Entity instances are made of
EntityClasses == {"T:Leaf", "T:Stray"}

-----------------------------------------------------------------------------
(* Operations on Entity instances *)

\* the record of an operation: which one, on which instance (ent; src the instance
\* copied), with which class and iModel its metadata was looked up, the name
\* written or address changed, the error thrown, what it returned, and the bag
\* a constructor was given
NoOp == [op |-> "none", ent |-> 0, src |-> 0, cls |-> "", iModel |-> "", name |-> "",
         addr |-> 0, err |-> "none", out |-> <<>>, bag |-> <<>>]

Op(op, ent, err) == [NoOp EXCEPT !.op = op, !.ent = ent, !.err = err]

\* what a reader sees through each slot of an instance
View(e, h) == [n \in SlotNames |-> Deep(e.slots[n], h)]

\* bookkeeping kept beside each instance: whether setPersistent() was invoked on it,
\* its slots and iModel at that moment, and the instance it was copied from
Track(obj, copyOf) ==
    [cls |-> obj.cls, iModel |-> obj.iModel, persistent |-> obj.persistent,
     frozen |-> obj.frozen, slots |-> obj.slots,
     setPersistentCalled |-> FALSE, slotsAtFreeze |-> NoSlots,
     iModelAtFreeze |-> obj.iModel,
     copyOf |-> copyOf]

Loaded == {i \in 1..Len(entities) : entities[i].copyOf = 0}

\* new cls(bag) by the storage collaborator
Construct(m, cls, keys, nulls) ==
    /\ Len(entities) < MaxEntities
    /\ Cardinality(Loaded) < MaxLoaded
    /\ \E b \in {MakeBag(KeyOrder, keys, nulls, NoSlots, heap)} :
       \E r \in {Entity(registry, b.heap, m, cls, b.bag)} :
           /\ registry' = r.reg
           /\ IF r.err = "none"
              THEN /\ entities' = Append(entities, Track(r.obj, 0))
                   /\ heap' = r.heap
                   /\ lastOp' = [Op("new", Len(entities) + 1, "none") EXCEPT
                                    !.cls = cls, !.iModel = m, !.bag = b.bag]
              ELSE /\ UNCHANGED <<entities, heap>>
                   /\ lastOp' = [Op("new", 0, r.err) EXCEPT
                                    !.cls = cls, !.iModel = m, !.bag = b.bag]
    /\ UNCHANGED <<enumCall, nWrites, nMutations, marshalCall, frames, lookup, admin, dxt>>

\* e.copyForEdit(): new (this.constructor)(this)
CopyForEdit(i) ==
    /\ Len(entities) < MaxEntities
    /\ \E e \in {entities[i]} :
       \E r \in {Entity(registry, heap, e.iModel, e.cls, e.slots)} :
           /\ registry' = r.reg
           /\ IF r.err = "none"
              THEN /\ entities' = Append(entities, Track(r.obj, i))
                   /\ heap' = r.heap
                   /\ lastOp' = [Op("copyForEdit", Len(entities) + 1, "none") EXCEPT !.src = i, !.cls = e.cls, !.iModel = e.iModel]
              ELSE /\ UNCHANGED <<entities, heap>>
                   /\ lastOp' = [Op("copyForEdit", 0, r.err) EXCEPT !.src = i, !.cls = e.cls, !.iModel = e.iModel]
    /\ UNCHANGED <<enumCall, nWrites, nMutations, marshalCall, frames, lookup, admin, dxt>>

\* e.setPersistent()
SetPersistent(i) ==
    LET e == entities[i]
        r == setPersistent(e)
    IN
    /\ entities' = [entities EXCEPT ![i] =
                      IF r.err # "none" THEN e
                      ELSE [e EXCEPT !.persistent = r.obj.persistent,
                                     !.frozen = r.obj.frozen,
                                     !.setPersistentCalled = TRUE,
                                     !.slotsAtFreeze = e.slots,
                                     !.iModelAtFreeze = e.iModel]]
    /\ lastOp' = Op("setPersistent", i, r.err)
    /\ UNCHANGED <<registry, enumCall, heap, nWrites, nMutations, marshalCall, frames, lookup, admin, dxt>>

\* the values written by callers: a falsy one and a truthy one
WriteValues == {Prim("0"), Prim("'w'")}

\* the names written by callers: two declared properties, the id, and a name
\* that no class declares
WriteNames == {"code", "path", "id", "bogus"}

\* e[name] = v, e.id = v: rejected when the instance is frozen
WriteSlot(i, name, v) ==
    /\ IF entities[i].frozen
       THEN /\ lastOp' = [Op("write", i, "TypeError") EXCEPT !.name = name]
            /\ UNCHANGED <<entities, nWrites>>
       ELSE /\ nWrites < MaxWrites
            /\ entities' = [entities EXCEPT ![i].slots[name] = v]
            /\ nWrites' = nWrites + 1
            /\ lastOp' = [Op("write", i, "none") EXCEPT !.name = name]
    /\ UNCHANGED <<registry, enumCall, heap, nMutations, marshalCall, frames, lookup, admin, dxt>>

\* e.iModel = m
WriteIModel(i, m) ==
    /\ IF entities[i].frozen
       THEN /\ lastOp' = [Op("write", i, "TypeError") EXCEPT !.name = "iModel"]
            /\ UNCHANGED <<entities, nWrites>>
       ELSE /\ nWrites < MaxWrites
            /\ entities' = [entities EXCEPT ![i].iModel = m]
            /\ nWrites' = nWrites + 1
            /\ lastOp' = [Op("write", i, "none") EXCEPT !.name = "iModel"]
    /\ UNCHANGED <<registry, enumCall, heap, nMutations, marshalCall, frames, lookup, admin, dxt>>

\* (e as any).persistent = false
WritePersistent(i) ==
    /\ IF entities[i].frozen
       THEN /\ lastOp' = [Op("write", i, "TypeError") EXCEPT !.name = "persistent"]
            /\ UNCHANGED <<entities, nWrites>>
       ELSE /\ nWrites < MaxWrites
            /\ entities' = [entities EXCEPT ![i].persistent = FALSE]
            /\ nWrites' = nWrites + 1
            /\ lastOp' = [Op("write", i, "none") EXCEPT !.name = "persistent"]
    /\ UNCHANGED <<registry, enumCall, heap, nMutations, marshalCall, frames, lookup, admin, dxt>>

\* an in-place change of an object reachable from a slot, by any holder of a reference:
\* array.push(x) on an array, obj.x = 9 on anything else
Mutate(a) ==
    /\ nMutations < MaxMutations
    /\ \E i \in 1..Len(entities), n \in SlotNames : a \in Reach(entities[i].slots[n], heap)
    /\ heap' = [heap EXCEPT ![a].elems =
                  IF heap[a].kind = "Array" THEN Append(@, Prim("'w'"))
                  ELSE [@ EXCEPT ![1] = Prim("9")]]
    /\ nMutations' = nMutations + 1
    /\ lastOp' = [Op("mutate", 0, "none") EXCEPT !.addr = a]
    /\ UNCHANGED <<registry, enumCall, entities, nWrites, marshalCall, frames, lookup, admin, dxt>>

\* e.toJSON()
ToJSON(i) ==
    \E r \in {toJSON(registry, entities[i])} :
    /\ registry' = r.reg
    /\ lastOp' = [Op("toJSON", i, r.err) EXCEPT !.cls = entities[i].cls, !.iModel = entities[i].iModel, !.out = r.val]
    /\ UNCHANGED <<enumCall, heap, entities, nWrites, nMutations, marshalCall, frames, lookup, admin, dxt>>

\* the object toJSON returned, read as a property bag: props[name]
BagOf(val) ==
    [n \in SlotNames |->
       IF \E k \in 1..Len(val) : val[k].name = n
       THEN val[CHOOSE k \in 1..Len(val) : val[k].name = n].val
       ELSE NoSlot]

\* new cls(props) where props is e.toJSON() with e.iModel put in as props.iModel
ConstructFromJSON(i) ==
    /\ Len(entities) < MaxEntities
    /\ \E e \in {entities[i]} :
       \E j \in {toJSON(registry, e)} :
       \E r \in {Entity(j.reg, heap, e.iModel, e.cls, BagOf(j.val))} :
           IF j.err # "none"
           THEN /\ registry' = j.reg
                /\ UNCHANGED <<entities, heap>>
                /\ lastOp' = [Op("fromJSON", 0, j.err) EXCEPT
                                 !.src = i, !.cls = e.cls, !.iModel = e.iModel]
           ELSE /\ registry' = r.reg
                /\ IF r.err = "none"
                   THEN /\ entities' = Append(entities, Track(r.obj, 0))
                        /\ heap' = r.heap
                        /\ lastOp' = [Op("fromJSON", Len(entities) + 1, "none") EXCEPT
                                         !.src = i, !.cls = e.cls, !.iModel = e.iModel,
                                         !.out = j.val, !.bag = BagOf(j.val)]
                   ELSE /\ UNCHANGED <<entities, heap>>
                        /\ lastOp' = [Op("fromJSON", 0, r.err) EXCEPT
                                         !.src = i, !.cls = e.cls, !.iModel = e.iModel,
                                         !.out = j.val, !.bag = BagOf(j.val)]
    /\ UNCHANGED <<enumCall, nWrites, nMutations, marshalCall, frames, lookup, admin, dxt>>

\* e.forEachProperty(func, includeCustom) with a func that records its calls
ForEachProperty(i, includeCustom) ==
    \E r \in {forEach(registry, entities[i].iModel, entities[i].cls, TRUE, includeCustom)} :
    /\ registry' = r.reg
    /\ lastOp' = [Op("forEachProperty", i, r.err) EXCEPT
                     !.cls = entities[i].cls, !.iModel = entities[i].iModel,
                     !.out = [k \in 1..Len(r.visits) |->
                                [name |-> r.visits[k].name, val |-> undefined]]]
    /\ UNCHANGED <<enumCall, heap, entities, nWrites, nMutations, marshalCall, frames, lookup, admin, dxt>>

\* no find call made, no Class Metadata materialized
NoLookup == [made |-> 0, begun |-> 0, ident |-> <<>>, calls |-> <<>>]

\* the record of the last call made to EditCommandAdmin or to EditorAppImpl: which,
\* its argument, the error it threw, the instance it dispatched to, the hooks it
\* invoked in order, and BackendIpc.isValid when it was made
NoAdminCall ==
    [op |-> "none", arg |-> "", err |-> "none", target |-> 0, trace |-> <<>>, ipc |-> FALSE]

\* EditCommandAdmin as its static initializers leave it (commands empty, no active
\* command, _isInitialized false), BackendIpc not started, EditorAppImpl not
\* registered, no EditCommand instance; runs counts the runCommand calls and reran
\* tells whether one of them was given an instance it had been given before
NoAdmin ==
    [commands |-> <<>>, activeCommand |-> 0, isInitialized |-> FALSE,
     ipcValid |-> FALSE, handlerRegistered |-> 0, runs |-> 0, reran |-> FALSE,
     instances |-> <<>>, last |-> NoAdminCall]

\* no _loadDXT call made
NoLoad == [pc |-> "idle", width |-> 0, height |-> 0, numLevels |-> 0, internalFormat |-> "",
           i |-> 0, offset |-> 0, levelWidth |-> 0, levelHeight |-> 0, levels |-> <<>>,
           minFilter |-> ""]

Init ==
    /\ registry = EmptyRegistry
    /\ enumCall = NoCall
    /\ heap = <<>>
    /\ entities = <<>>
    /\ lastOp = NoOp
    /\ nWrites = 0
    /\ nMutations = 0
    /\ marshalCall = NoMarshalCall
    /\ frames = <<>>
    /\ lookup = NoLookup
    /\ admin = NoAdmin
    /\ dxt = NoLoad

Next ==
    \/ \E m \in IModels, cls \in EntityClasses, keys \in BagChoices, nulls \in NullChoices :
           Construct(m, cls, keys, nulls)
    \/ \E i \in 1..Len(entities) : CopyForEdit(i)
    \/ \E i \in 1..Len(entities) : SetPersistent(i)
    \/ \E i \in 1..Len(entities), name \in WriteNames, v \in WriteValues : WriteSlot(i, name, v)
    \/ \E i \in 1..Len(entities), m \in IModels : WriteIModel(i, m)
    \/ \E i \in 1..Len(entities) : WritePersistent(i)
    \/ \E a \in 1..Len(heap) : Mutate(a)
    \/ \E i \in 1..Len(entities) : ToJSON(i)
    \/ \E i \in 1..Len(entities) : ConstructFromJSON(i)
    \/ \E i \in 1..Len(entities), includeCustom \in BOOLEAN : ForEachProperty(i, includeCustom)

Spec == Init /\ [][Next]_vars

-----------------------------------------------------------------------------
(* Explicit calls of EntityMetaData.forEach *)

CallForEach(m, c, wantSuper, includeCustom) ==
    \E r \in {forEach(registry, m, c, wantSuper, includeCustom)} :
    /\ enumCall' = [called |-> TRUE, iModel |-> m, cls |-> c, wantSuper |-> wantSuper,
                    includeCustom |-> includeCustom, visits |-> r.visits,
                    resolved |-> r.resolved, err |-> r.err]
    /\ registry' = r.reg
    /\ UNCHANGED <<heap, entities, lastOp, nWrites, nMutations, marshalCall, frames, lookup, admin, dxt>>


InitEnum ==
    /\ registry = EmptyRegistry
    /\ enumCall = NoCall
    /\ heap = <<>>
    /\ entities = <<>>
    /\ lastOp = NoOp
    /\ nWrites = 0
    /\ nMutations = 0
    /\ marshalCall = NoMarshalCall
    /\ frames = <<>>
    /\ lookup = NoLookup
    /\ admin = NoAdmin
    /\ dxt = NoLoad

NextEnum ==
    \E m \in IModels, c \in ClassNames, wantSuper \in BOOLEAN, includeCustom \in BOOLEAN :
        CallForEach(m, c, wantSuper, includeCustom)

SpecEnum == InitEnum /\ [][NextEnum]_vars


-----------------------------------------------------------------------------
(* EntityMetaData.forEach, one invocation at a time *)

\* the iModels and classes enumerated: a well-formed schema and a malformed one
ChainModels == {"db1", "db3"}
ChainClasses == {"T:Leaf", "T:Mid", "T:Base", "T:Stray", "T:Ping", "T:Pong"}

\* the call stack has no room for one more invocation: the engine throws RangeError
StackExhausted(depth) == depth >= MaxStack

\* a caller invokes EntityMetaData.forEach(iModel, c, true, func, includeCustom)
BeginForEach(m, c, includeCustom) ==
    /\ frames = <<>>
    /\ frames' = <<c>>
    /\ enumCall' = [called |-> TRUE, iModel |-> m, cls |-> c, wantSuper |-> TRUE,
                    includeCustom |-> includeCustom, visits |-> <<>>,
                    resolved |-> <<>>, err |-> "none"]
    /\ UNCHANGED <<registry, heap, entities, lastOp, nWrites, nMutations, marshalCall, lookup, admin, dxt>>

\* the body of the innermost invocation: the lookup, the throw or the loop over
\* the own properties, and then either the recursive call or the return, which
\* ends every enclosing invocation too since the recursive call is their last
\* statement
RunForEach ==
    /\ frames # <<>>
    /\ \E c \in {frames[Len(frames)]} :
       \E f \in {Find(registry, enumCall.iModel, c)} :
           /\ registry' = f.reg
           /\ IF ~f.found
              THEN /\ enumCall' = [enumCall EXCEPT !.resolved = Append(@, c),
                                                   !.err = "MetaDataNotFound"]
                   /\ frames' = <<>>
              ELSE IF ~WantSuper(enumCall.wantSuper, f.meta.baseClasses)
              THEN /\ enumCall' = [enumCall EXCEPT
                                     !.resolved = Append(@, c),
                                     !.visits = @ \o OwnVisits(f.meta.properties, c,
                                                               enumCall.includeCustom)]
                   /\ frames' = <<>>
              ELSE IF StackExhausted(Len(frames))
              THEN /\ enumCall' = [enumCall EXCEPT
                                     !.resolved = Append(@, c),
                                     !.visits = @ \o OwnVisits(f.meta.properties, c,
                                                               enumCall.includeCustom),
                                     !.err = "RangeError"]
                   /\ frames' = <<>>
              ELSE /\ enumCall' = [enumCall EXCEPT
                                     !.resolved = Append(@, c),
                                     !.visits = @ \o OwnVisits(f.meta.properties, c,
                                                               enumCall.includeCustom)]
                   /\ frames' = Append(frames, SuperClass(f.meta.baseClasses))
    /\ UNCHANGED <<heap, entities, lastOp, nWrites, nMutations, marshalCall, lookup, admin, dxt>>

InitChain ==
    /\ registry = [m \in ChainModels |-> <<>>]
    /\ enumCall = NoCall
    /\ heap = <<>>
    /\ entities = <<>>
    /\ lastOp = NoOp
    /\ nWrites = 0
    /\ nMutations = 0
    /\ marshalCall = NoMarshalCall
    /\ frames = <<>>
    /\ lookup = NoLookup
    /\ admin = NoAdmin
    /\ dxt = NoLoad

NextChain ==
    \/ \E m \in ChainModels, c \in ChainClasses, includeCustom \in BOOLEAN :
           BeginForEach(m, c, includeCustom)
    \/ RunForEach

\* an invocation that has been entered runs
SpecChain == InitChain /\ [][NextChain]_vars /\ WF_vars(RunForEach)

-----------------------------------------------------------------------------
(* Explicit calls of PropertyMetaData.createProperty *)

\* the objects the raw values refer to: two {x, y, z} objects, an array of both,
\* and an empty array
RawHeap ==
    << [kind |-> "Object", elems |-> <<Prim("1"), Prim("2"), Prim("3")>>],
       [kind |-> "Object", elems |-> <<Prim("4"), Prim("5"), Prim("6")>>],
       [kind |-> "Array", elems |-> <<Ref(1), Ref(2)>>],
       [kind |-> "Array", elems |-> <<>>] >>

\* the raw values given to createProperty
RawValues ==
    {undefined, Prim("null"), Prim("false"), Prim("0"), Prim("''"),
     Prim("true"), Prim("'s'"), Ref(1), Ref(3), Ref(4)}

PrimitiveTypeCodes ==
    {PrimitiveTypeCode_Uninitialized, PrimitiveTypeCode_Binary, PrimitiveTypeCode_Boolean,
     PrimitiveTypeCode_DateTime, PrimitiveTypeCode_Double, PrimitiveTypeCode_Integer,
     PrimitiveTypeCode_Long, PrimitiveTypeCode_Point2d, PrimitiveTypeCode_Point3d,
     PrimitiveTypeCode_String}

\* jsonObj.minOccurs and jsonObj.maxOccurs: absent or a count
MinOccursChoices == {Null, 0}
MaxOccursChoices == {Null, 4}

\* jsonObj.direction: absent or a navigation direction
DirectionChoices == {NoDirection, "forward"}

\* new PropertyMetaData(jsonObj).createProperty(raw)
CallCreateProperty(pt, minO, maxO, dir, raw) ==
    /\ Len(heap) < MaxHeap
    /\ \E meta \in {PropertyMetaData(PropJson(pt, FALSE, FALSE, minO, maxO, dir))} :
       \E r \in {createProperty(meta, raw, heap)} :
           /\ marshalCall' = [called |-> TRUE, meta |-> meta, jsonObj |-> raw,
                              val |-> r.val, err |-> r.err]
           /\ heap' = r.heap
    /\ UNCHANGED <<registry, enumCall, entities, lastOp, nWrites, nMutations, frames, lookup, admin, dxt>>

InitMarshal ==
    /\ registry = EmptyRegistry
    /\ enumCall = NoCall
    /\ heap = RawHeap
    /\ entities = <<>>
    /\ lastOp = NoOp
    /\ nWrites = 0
    /\ nMutations = 0
    /\ marshalCall = NoMarshalCall
    /\ frames = <<>>
    /\ lookup = NoLookup
    /\ admin = NoAdmin
    /\ dxt = NoLoad

NextMarshal ==
    \E pt \in PrimitiveTypeCodes, minO \in MinOccursChoices, maxO \in MaxOccursChoices,
       dir \in DirectionChoices, raw \in RawValues :
        CallCreateProperty(pt, minO, maxO, dir, raw)

SpecMarshal == InitMarshal /\ [][NextMarshal]_vars

-----------------------------------------------------------------------------
(* classMetaDataRegistry.find, one step at a time: the lookup in the cache, the  *)
(* request to the schema-loading collaborator, which may suspend the caller,     *)
(* and the insertion of what it returns.  Every Class Metadata object gets a     *)
(* number when it is materialized, so that two objects built from the same       *)
(* schema JSON are told apart.                                                   *)

\* the iModel whose registry is looked at, and the names asked for
LookupModel == "db1"
LookupClasses == {"T:Base", "T:Leaf", "T:Gone"}

IdleCall == [pc |-> "idle", name |-> "", got |-> 0, hit |-> FALSE]

\* the state of the machine before any find call
IdleLookup == [NoLookup EXCEPT !.calls = [p \in 1..MaxCallers |-> IdleCall]]

\* an insertion that replaces the entry another lookup has cached in the meantime
InsertLastWins(reg, ident, c, id) ==
    [reg |-> [reg EXCEPT ![LookupModel] =
                [n \in DOMAIN reg[LookupModel] \cup {c} |->
                   IF n = c THEN EntityMetaData(ClassJson[c]) ELSE reg[LookupModel][n]]],
     ident |-> [n \in DOMAIN ident \cup {c} |-> IF n = c THEN id ELSE ident[n]],
     got |-> id]

\* the insert-on-miss path: the first materialization to arrive is cached; one that
\* arrives when the name is cached already is discarded and the cached entry returned
InsertOnMiss(reg, ident, c, id) ==
    IF c \in DOMAIN reg[LookupModel]
    THEN [reg |-> reg, ident |-> ident, got |-> ident[c]]
    ELSE [reg |-> [reg EXCEPT ![LookupModel] =
                     [n \in DOMAIN reg[LookupModel] \cup {c} |->
                        IF n = c THEN EntityMetaData(ClassJson[c]) ELSE reg[LookupModel][n]]],
          ident |-> [n \in DOMAIN ident \cup {c} |-> IF n = c THEN id ELSE ident[n]],
          got |-> id]

\* caller p enters find(c): a cached entry is returned at once; on a miss the
\* materialization is requested from the schema-loading collaborator
BeginFind(p, c) ==
    /\ lookup.calls[p].pc # "materializing"
    /\ lookup.begun < MaxLookups
    /\ lookup' = [lookup EXCEPT
                    !.begun = @ + 1,
                    !.calls[p] =
                       IF c \in DOMAIN registry[LookupModel]
                       THEN [pc |-> "done", name |-> c, got |-> lookup.ident[c], hit |-> TRUE]
                       ELSE [pc |-> "materializing", name |-> c, got |-> 0, hit |-> FALSE]]
    /\ UNCHANGED <<registry, enumCall, heap, entities, lastOp, nWrites, nMutations,
                   marshalCall, frames, admin, dxt>>

\* the collaborator answers caller p: nothing (find returns undefined), or a new
\* Class Metadata object that goes through the insert-on-miss path
FinishFind(p) ==
    /\ lookup.calls[p].pc = "materializing"
    /\ \E c \in {lookup.calls[p].name} :
         IF c \notin Loadable(LookupModel)
         THEN /\ lookup' = [lookup EXCEPT !.calls[p].pc = "done"]
              /\ UNCHANGED registry
         ELSE \E r \in {InsertOnMiss(registry, lookup.ident, c, lookup.made + 1)} :
                /\ registry' = r.reg
                /\ lookup' = [lookup EXCEPT !.made = @ + 1,
                                            !.ident = r.ident,
                                            !.calls[p].pc = "done",
                                            !.calls[p].got = r.got]
    /\ UNCHANGED <<enumCall, heap, entities, lastOp, nWrites, nMutations,
                   marshalCall, frames, admin, dxt>>

\* the classes an enumeration has materialized, in the order of their lookups
Materialized(resolved, reg) ==
    SelectSeq(resolved, LAMBDA c : c \notin DOMAIN reg[LookupModel] /\ c \in Loadable(LookupModel))

\* an enumeration that walks up the chain by taking the base class off the
\* baseClasses list of the Class Metadata it has found
EnumerateShifting(c, includeCustom) ==
    /\ lookup.begun < MaxLookups
    /\ \E r \in {forEach(registry, LookupModel, c, TRUE, includeCustom)} :
       \E new \in {Materialized(r.resolved, registry)} :
           /\ registry' = [r.reg EXCEPT ![LookupModel] =
                             [n \in DOMAIN r.reg[LookupModel] |->
                                IF n = c /\ r.reg[LookupModel][n].baseClasses # <<>>
                                THEN [r.reg[LookupModel][n] EXCEPT !.baseClasses = Tail(@)]
                                ELSE r.reg[LookupModel][n]]]
           /\ enumCall' = [called |-> TRUE, iModel |-> LookupModel, cls |-> c,
                           wantSuper |-> TRUE, includeCustom |-> includeCustom,
                           visits |-> r.visits, resolved |-> r.resolved, err |-> r.err]
           /\ lookup' = [lookup EXCEPT
                           !.begun = @ + 1,
                           !.made = @ + Len(new),
                           !.ident = [n \in DOMAIN r.reg[LookupModel] |->
                                        IF n \in DOMAIN lookup.ident THEN lookup.ident[n]
                                        ELSE lookup.made
                                               + (CHOOSE k \in 1..Len(new) : new[k] = n)]]
    /\ UNCHANGED <<heap, entities, lastOp, nWrites, nMutations, marshalCall, frames,
                   admin, dxt>>

\* EntityMetaData.forEach(iModel, c, true, func, includeCustom) between the find calls
\* of other callers
Enumerate(c, includeCustom) ==
    /\ lookup.begun < MaxLookups
    /\ \E r \in {forEach(registry, LookupModel, c, TRUE, includeCustom)} :
       \E new \in {Materialized(r.resolved, registry)} :
           /\ registry' = r.reg
           /\ enumCall' = [called |-> TRUE, iModel |-> LookupModel, cls |-> c,
                           wantSuper |-> TRUE, includeCustom |-> includeCustom,
                           visits |-> r.visits, resolved |-> r.resolved, err |-> r.err]
           /\ lookup' = [lookup EXCEPT
                           !.begun = @ + 1,
                           !.made = @ + Len(new),
                           !.ident = [n \in DOMAIN r.reg[LookupModel] |->
                                        IF n \in DOMAIN lookup.ident THEN lookup.ident[n]
                                        ELSE lookup.made
                                               + (CHOOSE k \in 1..Len(new) : new[k] = n)]]
    /\ UNCHANGED <<heap, entities, lastOp, nWrites, nMutations, marshalCall, frames,
                   admin, dxt>>

\* the raw values given to the Property Metadata of a cached class
CachedRawValues == {Prim("null"), Prim("'s'")}

\* meta.properties[name].createProperty(raw) on the Property Metadata of a cached class
MarshalCached(c, raw) ==
    /\ c \in DOMAIN registry[LookupModel]
    /\ \E k \in 1..Len(registry[LookupModel][c].properties) :
       \E meta \in {registry[LookupModel][c].properties[k].meta} :
       \E r \in {createProperty(meta, raw, heap)} :
           /\ r.err = "none" /\ r.heap = heap
           /\ marshalCall' = [called |-> TRUE, meta |-> meta, jsonObj |-> raw,
                              val |-> r.val, err |-> r.err]
    /\ UNCHANGED <<registry, enumCall, heap, entities, lastOp, nWrites, nMutations, frames,
                   lookup, admin, dxt>>

InitLookup ==
    /\ registry = EmptyRegistry
    /\ enumCall = NoCall
    /\ heap = <<>>
    /\ entities = <<>>
    /\ lastOp = NoOp
    /\ nWrites = 0
    /\ nMutations = 0
    /\ marshalCall = NoMarshalCall
    /\ frames = <<>>
    /\ lookup = IdleLookup
    /\ admin = NoAdmin
    /\ dxt = NoLoad

NextLookup ==
    \/ \E p \in 1..MaxCallers, c \in LookupClasses : BeginFind(p, c)
    \/ \E p \in 1..MaxCallers : FinishFind(p)
    \/ \E c \in LookupClasses, includeCustom \in BOOLEAN : Enumerate(c, includeCustom)
    \/ \E c \in LookupClasses, raw \in CachedRawValues : MarshalCached(c, raw)

SpecLookup == InitLookup /\ [][NextLookup]_vars

-----------------------------------------------------------------------------
(* EditCommand, EditorAppImpl and EditCommandAdmin *)

\* the subclasses of EditCommand: one that overrides commandId and one that
\* inherits the empty commandId of EditCommand
CommandClasses == {"CmdA", "CmdNoId"}

\* the static commandId of a class
CommandId(cls) == IF cls = "CmdA" THEN "a" ELSE ""

\* the commandIds callers use: one a class carries, the empty one, one no class has
CommandIds == {"a", "", "b"}

\* the members of the modules given to registerModule; "helper" is no subclass of
\* EditCommand
Modules == {<<"CmdNoId", "helper", "CmdA">>, <<"helper">>}

\* the names given to call: an async method, a lifecycle hook, a member that is no
\* function, and a name the command does not have
MethodNames == {"ping", "onFinish", "iModel", "absent"}

\* typeof (cmd as any)[methodName] === "function"
IsFunction(methodName) == methodName \in {"ping", "onFinish", "onStart", "onCleanup"}

\* new commandClass(iModel, ...args); beside the instance: how often runCommand gave
\* it onStart and onFinish, whether it has received onFinish from anyone and
\* whether through call, and whether call dispatched to it after it had received
\* onFinish or while it was not the active command
NewCommand(cls) ==
    [cls |-> cls, starts |-> 0, finishes |-> 0, finished |-> FALSE, viaCall |-> FALSE,
     lateDispatch |-> FALSE, staleDispatch |-> FALSE]

BadArg(text) == "BadArg: " \o text

\* Map.set and Map.delete on commands
MapSet(map, key, value) == [k \in DOMAIN map \cup {key} |-> IF k = key THEN value ELSE map[k]]
MapDelete(map, key) == [k \in DOMAIN map \ {key} |-> map[k]]

\* runCommand that starts the new command without finishing the active one
runCommandNoFinish(a, cmd) ==
    [a EXCEPT
       !.activeCommand = cmd,
       !.runs = @ + 1,
       !.instances = [i \in 1..Len(a.instances) |->
                        IF i = cmd THEN [a.instances[i] EXCEPT !.starts = @ + 1]
                        ELSE a.instances[i]],
       !.last = [NoAdminCall EXCEPT !.op = "runCommand", !.target = cmd, !.ipc = a.ipcValid,
                                    !.trace = IF cmd # 0 THEN <<<<"onStart", cmd>>>> ELSE <<>>]]

\* EditCommandAdmin.runCommand(cmd): cmd is an instance, 0 for undefined
runCommand(a, cmd) ==
    CHOOSE done \in
      { [a EXCEPT
           !.activeCommand = cmd,
           !.runs = @ + 1,
           !.instances = [i \in 1..Len(fin) |->
                            IF i = cmd THEN [fin[i] EXCEPT !.starts = @ + 1] ELSE fin[i]],
           !.last = [NoAdminCall EXCEPT
                       !.op = "runCommand", !.target = cmd, !.ipc = a.ipcValid,
                       !.trace = (IF a.activeCommand # 0
                                  THEN <<<<"onFinish", a.activeCommand>>>> ELSE <<>>)
                                 \o (IF cmd # 0 THEN <<<<"onStart", cmd>>>> ELSE <<>>)]] :
          fin \in { [i \in 1..Len(a.instances) |->
                       IF i = a.activeCommand
                       THEN [a.instances[i] EXCEPT !.finishes = @ + 1, !.finished = TRUE]
                       ELSE a.instances[i]] } } : TRUE

\* EditCommandAdmin.register(commandType): _isInitialized is set before the test of
\* BackendIpc.isValid, so the test is made by the first call only
register(a, commandType) ==
    IF ~a.isInitialized /\ ~a.ipcValid
    THEN [a EXCEPT !.isInitialized = TRUE,
                   !.last = [NoAdminCall EXCEPT !.op = "register", !.arg = commandType,
                                                !.ipc = a.ipcValid, !.err = "Error"]]
    ELSE [a EXCEPT
            !.isInitialized = TRUE,
            !.handlerRegistered = IF a.isInitialized THEN @ ELSE @ + 1,
            !.commands = IF CommandId(commandType) # ""
                         THEN MapSet(@, CommandId(commandType), commandType) ELSE @,
            !.last = [NoAdminCall EXCEPT !.op = "register", !.arg = commandType,
                                         !.ipc = a.ipcValid]]

\* EditCommandAdmin.registerModule(moduleObj): register for each member that is a
\* subclass of EditCommand; a throw of register ends the loop
RECURSIVE registerModule(_, _)
registerModule(a, members) ==
    IF members = <<>> THEN a
    ELSE IF Head(members) \notin CommandClasses THEN registerModule(a, Tail(members))
    ELSE CHOOSE done \in
           { IF r.last.err # "none" THEN r ELSE registerModule(r, Tail(members)) :
               r \in {register(a, Head(members))} } : TRUE

\* EditCommandAdmin.unRegister(commandId)
unRegister(a, commandId) ==
    [a EXCEPT !.commands = MapDelete(@, commandId),
              !.last = [NoAdminCall EXCEPT !.op = "unRegister", !.arg = commandId,
                                           !.ipc = a.ipcValid]]

\* startCommand that ends the active command when the commandId is unknown
startCommandOrStop(a, commandId) ==
    IF commandId \notin DOMAIN a.commands
    THEN [runCommand(a, 0) EXCEPT
            !.last = [@ EXCEPT !.op = "startCommand", !.arg = commandId,
                               !.err = BadArg("Command Not Found")]]
    ELSE [runCommand([a EXCEPT !.instances = Append(@, NewCommand(a.commands[commandId]))],
                     Len(a.instances) + 1)
            EXCEPT !.last = [@ EXCEPT !.op = "startCommand", !.arg = commandId]]

\* EditorAppImpl.startCommand(commandId, iModelKey, ...args)
startCommand(a, commandId) ==
    IF commandId \notin DOMAIN a.commands
    THEN [a EXCEPT !.last = [NoAdminCall EXCEPT !.op = "startCommand", !.arg = commandId,
                                                !.ipc = a.ipcValid,
                                                !.err = BadArg("Command Not Found")]]
    ELSE [runCommand([a EXCEPT !.instances = Append(@, NewCommand(a.commands[commandId]))],
                     Len(a.instances) + 1)
            EXCEPT !.last = [@ EXCEPT !.op = "startCommand", !.arg = commandId]]

\* call that dispatches to the command started first
callFirst(a, methodName) ==
    IF a.instances = <<>>
    THEN [a EXCEPT !.last = [NoAdminCall EXCEPT !.op = "call", !.arg = methodName,
                                                !.ipc = a.ipcValid,
                                                !.err = BadArg("No active command")]]
    ELSE [a EXCEPT
            !.instances[1] = [@ EXCEPT !.lateDispatch = @ \/ a.instances[1].finished,
                                       !.staleDispatch = @ \/ a.activeCommand # 1],
            !.last = [NoAdminCall EXCEPT !.op = "call", !.arg = methodName,
                                         !.ipc = a.ipcValid, !.target = 1]]

\* EditorAppImpl.call(methodName, ...args)
call(a, methodName) ==
    IF a.activeCommand = 0
    THEN [a EXCEPT !.last = [NoAdminCall EXCEPT !.op = "call", !.arg = methodName,
                                                !.ipc = a.ipcValid,
                                                !.err = BadArg("No active command")]]
    ELSE IF ~IsFunction(methodName)
    THEN [a EXCEPT !.last = [NoAdminCall EXCEPT !.op = "call", !.arg = methodName,
                                                !.ipc = a.ipcValid,
                                                !.err = BadArg("Method not found")]]
    ELSE [a EXCEPT
            !.instances[a.activeCommand] =
               [@ EXCEPT !.lateDispatch = @ \/ a.instances[a.activeCommand].finished,
                         !.finished = @ \/ methodName = "onFinish",
                         !.viaCall = @ \/ methodName = "onFinish"],
            !.last = [NoAdminCall EXCEPT !.op = "call", !.arg = methodName,
                                         !.ipc = a.ipcValid, !.target = a.activeCommand,
                                         !.trace = IF methodName \in {"onFinish", "onStart"}
                                                   THEN <<<<methodName, a.activeCommand>>>>
                                                   ELSE <<>>]]

AdminFrame ==
    UNCHANGED <<registry, enumCall, heap, entities, lastOp, nWrites, nMutations,
                marshalCall, frames, lookup, dxt>>

\* BackendIpc is started or shut down by the host
SetIpc(valid) ==
    /\ admin.ipcValid # valid
    /\ admin' = [admin EXCEPT !.ipcValid = valid]
    /\ AdminFrame

Register(commandType) ==
    /\ admin' = register(admin, commandType)
    /\ AdminFrame

RegisterModule(members) ==
    /\ admin' = registerModule(admin, members)
    /\ AdminFrame

UnRegister(commandId) ==
    /\ admin' = unRegister(admin, commandId)
    /\ AdminFrame

\* backend code calls runCommand with a command it has constructed
RunNewCommand(cls) ==
    /\ admin.runs < MaxRuns
    /\ Len(admin.instances) < MaxCommands
    /\ admin' = runCommand([admin EXCEPT !.instances = Append(@, NewCommand(cls))],
                           Len(admin.instances) + 1)
    /\ AdminFrame

\* backend code calls runCommand with a command it holds, or with undefined
RunCommand(cmd) ==
    /\ admin.runs < MaxRuns
    /\ admin' = [runCommand(admin, cmd) EXCEPT !.reran = @ \/ cmd # 0]
    /\ AdminFrame

\* the frontend invokes startCommand over the channel EditorAppImpl is registered on
StartCommand(commandId) ==
    /\ admin.handlerRegistered > 0
    /\ admin.ipcValid
    /\ admin.runs < MaxRuns
    /\ Len(admin.instances) < MaxCommands
    /\ admin' = startCommand(admin, commandId)
    /\ AdminFrame

\* the frontend invokes call over the channel EditorAppImpl is registered on
Call(methodName) ==
    /\ admin.handlerRegistered > 0
    /\ admin.ipcValid
    /\ admin' = call(admin, methodName)
    /\ AdminFrame

InitAdmin ==
    /\ registry = EmptyRegistry
    /\ enumCall = NoCall
    /\ heap = <<>>
    /\ entities = <<>>
    /\ lastOp = NoOp
    /\ nWrites = 0
    /\ nMutations = 0
    /\ marshalCall = NoMarshalCall
    /\ frames = <<>>
    /\ lookup = NoLookup
    /\ admin = NoAdmin
    /\ dxt = NoLoad

NextAdmin ==
    \/ \E valid \in BOOLEAN : SetIpc(valid)
    \/ \E commandType \in CommandClasses : Register(commandType)
    \/ \E members \in Modules : RegisterModule(members)
    \/ \E commandId \in CommandIds : UnRegister(commandId)
    \/ \E cls \in CommandClasses : RunNewCommand(cls)
    \/ \E cmd \in 0..Len(admin.instances) : RunCommand(cmd)
    \/ \E commandId \in CommandIds : StartCommand(commandId)
    \/ \E methodName \in MethodNames : Call(methodName)

SpecAdmin == InitAdmin /\ [][NextAdmin]_vars

-----------------------------------------------------------------------------
(* Construction, copy and setPersistent alone, over classes with a navigation    *)
(* property, with custom-handled properties and with a shadowed property name    *)

ConstructClasses == {"T:Leaf", "T:Shadow"}

\* the key sets of the bags: none, every name, and only names that the class chain
\* of neither class enumerates, beside one that both enumerate
ConstructBagChoices ==
    BagChoices \cup { {"code", "secret", "legacy", "mixProp", "bogus"} }

InitConstruct ==
    /\ registry = EmptyRegistry
    /\ enumCall = NoCall
    /\ heap = <<>>
    /\ entities = <<>>
    /\ lastOp = NoOp
    /\ nWrites = 0
    /\ nMutations = 0
    /\ marshalCall = NoMarshalCall
    /\ frames = <<>>
    /\ lookup = NoLookup
    /\ admin = NoAdmin
    /\ dxt = NoLoad

NextConstruct ==
    \/ \E m \in IModels, cls \in ConstructClasses, keys \in ConstructBagChoices,
          nulls \in NullChoices : Construct(m, cls, keys, nulls)
    \/ \E i \in 1..Len(entities) : CopyForEdit(i)
    \/ \E i \in 1..Len(entities) : SetPersistent(i)
    \/ \E i \in 1..Len(entities) : ToJSON(i)
    \/ \E i \in 1..Len(entities), includeCustom \in BOOLEAN : ForEachProperty(i, includeCustom)

SpecConstruct == InitConstruct /\ [][NextConstruct]_vars

-----------------------------------------------------------------------------
(* _loadDXT (core/frontend/src/render/webgl/TextureDXT.ts) *)

\* the widths and heights, the internal formats and the level counts of the
\* DXTInfo records _readDDSHeader hands over
TextureSizes == {1, 4, 8, 16}
InternalFormats == {"COMPRESSED_RGB_S3TC_DXT1_EXT", "COMPRESSED_RGBA_S3TC_DXT3_EXT",
                    "COMPRESSED_RGBA_S3TC_DXT5_EXT"}

\* x >> n for the non-negative 32-bit integers of a DDS header
ShiftRight(x, n) == x \div (2 ^ n)

\* _calculateTextureLevelSizeInBytes(s3tcExt, format, width, height)
CalculateTextureLevelSizeInBytes(format, width, height) ==
    IF format = "COMPRESSED_RGB_S3TC_DXT1_EXT"
    THEN ShiftRight(width + 3, 2) * ShiftRight(height + 3, 2) * 8
    ELSE IF format \in {"COMPRESSED_RGBA_S3TC_DXT3_EXT", "COMPRESSED_RGBA_S3TC_DXT5_EXT"}
    THEN ShiftRight(width + 3, 2) * ShiftRight(height + 3, 2) * 16
    ELSE 0

\* the DXTInfo records of DDS files whose smallest mip level still has a texel in
\* each direction
DXTInfos ==
    {info \in [width : TextureSizes, height : TextureSizes, numLevels : 1..MaxLevels,
               internalFormat : InternalFormats] :
        /\ ShiftRight(info.width, info.numLevels - 1) >= 1
        /\ ShiftRight(info.height, info.numLevels - 1) >= 1}

DXTFrame ==
    UNCHANGED <<registry, enumCall, heap, entities, lastOp, nWrites, nMutations,
                marshalCall, frames, lookup, admin>>

\* _loadDXT(dxtInfo) up to the loop: offset = 0, width and height those of dxtInfo
LoadDXT(dxtInfo) ==
    /\ dxt.pc # "loop"
    /\ dxt' = [NoLoad EXCEPT !.pc = "loop", !.width = dxtInfo.width,
                             !.height = dxtInfo.height,
                             !.numLevels = dxtInfo.numLevels,
                             !.internalFormat = dxtInfo.internalFormat,
                             !.levelWidth = dxtInfo.width, !.levelHeight = dxtInfo.height]
    /\ DXTFrame

\* one pass of the loop: the size of the level, the view at dxtData.byteOffset +
\* offset, compressedTexImage2D(level i, width, height, view), and the halving of
\* width and height and the advance of offset
UploadLevel ==
    /\ dxt.pc = "loop"
    /\ dxt.i < dxt.numLevels
    /\ \E levelSize \in {CalculateTextureLevelSizeInBytes(dxt.internalFormat,
                                                          dxt.width, dxt.height)} :
         dxt' = [dxt EXCEPT
                   !.levels = Append(@, [level |-> dxt.i, width |-> dxt.levelWidth,
                                         height |-> dxt.levelHeight,
                                         offset |-> dxt.offset, size |-> levelSize]),
                   !.levelWidth = ShiftRight(@, 1),
                   !.levelHeight = ShiftRight(@, 1),
                   !.offset = @ + levelSize,
                   !.i = @ + 1]
    /\ DXTFrame

\* after the loop: the texture filters
SetFilters ==
    /\ dxt.pc = "loop"
    /\ dxt.i >= dxt.numLevels
    /\ dxt' = [dxt EXCEPT !.pc = "done",
                          !.minFilter = IF dxt.numLevels > 1 THEN "LINEAR_MIPMAP_NEAREST"
                                        ELSE "LINEAR"]
    /\ DXTFrame

InitDXT ==
    /\ registry = EmptyRegistry
    /\ enumCall = NoCall
    /\ heap = <<>>
    /\ entities = <<>>
    /\ lastOp = NoOp
    /\ nWrites = 0
    /\ nMutations = 0
    /\ marshalCall = NoMarshalCall
    /\ frames = <<>>
    /\ lookup = NoLookup
    /\ admin = NoAdmin
    /\ dxt = NoLoad

NextDXT ==
    \/ \E dxtInfo \in DXTInfos : LoadDXT(dxtInfo)
    \/ UploadLevel
    \/ SetFilters

SpecDXT == InitDXT /\ [][NextDXT]_vars

-----------------------------------------------------------------------------
(* Properties of the persistent / editable lifecycle *)

\* the names forEachProperty visits for an instance (superclasses included,
\* custom-handled properties excluded)
EnumeratedNames(e) ==
    LET r == forEach(registry, e.iModel, e.cls, TRUE, FALSE) IN
    {r.visits[k].name : k \in 1..Len(r.visits)}

\* C1: once setPersistent() has been invoked on an Entity, every later assignment
\* to an existing slot, to the id, to the iModel or to a new name throws at the
\* write and leaves the slot as it was: each slot still holds the value it held
\* when setPersistent() was invoked.
C1_FrozenEntityRejectsWrites ==
    \A i \in 1..Len(entities) :
        entities[i].setPersistentCalled =>
            /\ entities[i].slots = entities[i].slotsAtFreeze
            /\ entities[i].iModel = entities[i].iModelAtFreeze
            /\ (lastOp.op = "write" /\ lastOp.ent = i => lastOp.err = "TypeError")

\* a write to a filled slot of a persistent Entity has just been attempted
C1_Witness ==
    /\ lastOp.op = "write"
    /\ lastOp.name = "code"
    /\ entities[lastOp.ent].setPersistentCalled
    /\ entities[lastOp.ent].slots["code"] = Prim("'s'")

\* C2: isPersistent() is false for an Entity that has just been constructed, from a
\* bag or by copyForEdit, and once setPersistent() has been invoked on an instance
\* isPersistent() is true in every later state, whatever is done to the instance.
C2_PersistentIsOneWay ==
    /\ \A i \in 1..Len(entities) :
           entities[i].setPersistentCalled => isPersistent(entities[i])
    /\ (lastOp.op \in {"new", "copyForEdit"} /\ lastOp.err = "none"
           => ~isPersistent(entities[lastOp.ent]))

\* an attempt to reset the flag of a persistent Entity that has a copy
C2_Witness ==
    /\ lastOp.op = "write"
    /\ lastOp.name = "persistent"
    /\ entities[lastOp.ent].setPersistentCalled
    /\ \E c \in 1..Len(entities) : entities[c].copyOf = lastOp.ent

\* C3: after setPersistent(), what is observed through every slot of the Entity,
\* the elements and length of an array and the coordinates of a point included,
\* is the same after every step, whoever takes it.
C3_PersistentContentNeverChanges ==
    [][\A i \in 1..Len(entities) :
           entities[i].setPersistentCalled
               => View(entities'[i], heap') = View(entities[i], heap)]_vars

\* C4: copyForEdit() on a persistent Entity returns a new instance of the same
\* class, bound to the same iModel, not persistent, whose value in every
\* enumerated slot is deep-equal to the source's; the source is left as it was.
C4_CopyForEditIsDeepEqual ==
    [][\A i \in 1..Len(entities) :
           (/\ lastOp'.op = "copyForEdit"
            /\ lastOp'.src = i
            /\ entities[i].setPersistentCalled)
           => /\ lastOp'.err = "none"
              /\ Len(entities') = Len(entities) + 1
              /\ lastOp'.ent = Len(entities')
              /\ entities'[lastOp'.ent].cls = entities[i].cls
              /\ entities'[lastOp'.ent].iModel = entities[i].iModel
              /\ ~isPersistent(entities'[lastOp'.ent])
              /\ \A n \in EnumeratedNames(entities[i]) :
                     Deep(entities'[lastOp'.ent].slots[n], heap')
                         = Deep(Get(entities[i].slots, n), heap)
              /\ entities'[i] = entities[i]
              /\ View(entities'[i], heap') = View(entities[i], heap)]_vars

\* the addresses reachable from the slots of an instance
ReachOf(e, h) == UNION {Reach(e.slots[n], h) : n \in SlotNames}

\* C5: no assignment to a slot of a copy made by copyForEdit(), and no in-place
\* change of a value reachable from a slot of the copy, changes what is read
\* from any slot of the Entity it was copied from.
C5_CopyNeverAffectsSource ==
    [][\A c \in 1..Len(entities) :
           (/\ entities[c].copyOf # 0
            /\ \/ lastOp'.op = "write" /\ lastOp'.ent = c
               \/ lastOp'.op = "mutate" /\ lastOp'.addr \in ReachOf(entities[c], heap))
           => View(entities'[entities[c].copyOf], heap')
                  = View(entities[entities[c].copyOf], heap)]_vars

-----------------------------------------------------------------------------
(* Properties of the Property Enumerator *)

\* the chain of a class read off the schema JSON: the class, then the first entry
\* of its base-class list, and so on, up to a class without base class or one
\* that cannot be materialized
RECURSIVE FirstBaseChain(_, _)
FirstBaseChain(m, c) ==
    IF c \notin Loadable(m) \/ ClassJson[c].baseClasses = <<>> THEN <<c>>
    ELSE <<c>> \o FirstBaseChain(m, ClassJson[c].baseClasses[1])

Range(seq) == {seq[k] : k \in 1..Len(seq)}

\* the properties a class declares, in the order of its property mapping
Declared(c) == SelectSeq(ClassJson[c].properties, LAMBDA p : p.name # "")

IndexOf(seq, x) == CHOOSE k \in 1..Len(seq) : seq[k] = x
NameIndex(c, n) == CHOOSE k \in 1..Len(Declared(c)) : Declared(c)[k].name = n

Visited(c, n) ==
    \E a \in 1..Len(enumCall.visits) :
        enumCall.visits[a].owner = c /\ enumCall.visits[a].name = n

VisitNames == [a \in 1..Len(enumCall.visits) |-> enumCall.visits[a].name]

\* C6: forEach with wantSuper = true visits every non-custom-handled property of
\* each class on the first-base chain when the chain resolves, the visits for a
\* class nearer to the start precede those for a class farther along, and within
\* one class they follow the order of its property mapping.
C6_MostDerivedFirstOrder ==
    (enumCall.called /\ enumCall.wantSuper) =>
        LET chain == FirstBaseChain(enumCall.iModel, enumCall.cls)
            v == enumCall.visits
        IN  /\ enumCall.err = "none" =>
                   \A k \in 1..Len(chain) : \A j \in 1..Len(Declared(chain[k])) :
                       ~Declared(chain[k])[j].json.isCustomHandled
                           => Visited(chain[k], Declared(chain[k])[j].name)
            /\ \A a \in 1..Len(v) : v[a].owner \in Range(chain)
            /\ \A a, b \in 1..Len(v) :
                   a < b =>
                       \/ IndexOf(chain, v[a].owner) < IndexOf(chain, v[b].owner)
                       \/ /\ v[a].owner = v[b].owner
                          /\ NameIndex(v[a].owner, v[a].name) < NameIndex(v[b].owner, v[b].name)

\* an enumeration over a chain of three classes that visited all of them
C6_Witness ==
    /\ enumCall.called /\ enumCall.wantSuper /\ enumCall.err = "none"
    /\ enumCall.cls = "T:Leaf"
    /\ {"T:Leaf", "T:Mid", "T:Base"} =
           {enumCall.visits[a].owner : a \in 1..Len(enumCall.visits)}

\* C7: forEach looks up exactly the classes of the first-base chain, in order, and
\* no class listed at index 1 or later of a baseClasses list on the chain is looked
\* up or visited; a property declared only on such a mixin is never passed to the
\* visitor.
C7_MixinsNeverVisited ==
    enumCall.called =>
        LET chain == IF enumCall.wantSuper
                     THEN FirstBaseChain(enumCall.iModel, enumCall.cls)
                     ELSE <<enumCall.cls>>
            res == enumCall.resolved
            v == enumCall.visits
        IN  /\ Len(res) <= Len(chain)
            /\ \A k \in 1..Len(res) : res[k] = chain[k]
            /\ enumCall.err = "none" => res = chain
            /\ \A a \in 1..Len(v) : v[a].owner \in Range(res)
            /\ \A k \in 1..Len(res) :
                   res[k] \in Loadable(enumCall.iModel) =>
                       \A j \in 2..Len(ClassJson[res[k]].baseClasses) :
                           LET mixin == ClassJson[res[k]].baseClasses[j] IN
                           /\ mixin \notin Range(res)
                           /\ \A a \in 1..Len(v) :
                                  /\ v[a].owner # mixin
                                  /\ \A q \in 1..Len(Declared(mixin)) :
                                         v[a].name # Declared(mixin)[q].name

\* an enumeration that went past a class with a mixin
C7_Witness ==
    /\ enumCall.called /\ enumCall.wantSuper /\ enumCall.err = "none"
    /\ enumCall.resolved = <<"T:Mid", "T:Base">>
    /\ Len(ClassJson["T:Mid"].baseClasses) = 2

\* C8 as stated: forEach with wantSuper = false visits exactly the class's own
\* declared properties, all of them, in declaration order, and looks up no other
\* class.
C8_VisitsAllOwnProperties ==
    (enumCall.called /\ ~enumCall.wantSuper /\ enumCall.err = "none") =>
        /\ VisitNames = [k \in 1..Len(Declared(enumCall.cls)) |-> Declared(enumCall.cls)[k].name]
        /\ enumCall.resolved = <<enumCall.cls>>
        /\ \A a \in 1..Len(enumCall.visits) : enumCall.visits[a].owner = enumCall.cls

\* C8 amended: forEach with wantSuper = false visits, in declaration order, exactly
\* those of the class's own properties for which includeCustom is true or the
\* metadata is not custom-handled (or carries the orphan flag): all of them when
\* includeCustom is true.  No other class is looked up and no property of a base
\* class is visited.
C8_VisitsOwnPropertiesOnly ==
    (enumCall.called /\ ~enumCall.wantSuper /\ enumCall.err = "none") =>
        LET own == registry[enumCall.iModel][enumCall.cls].properties
            shown == SelectSeq(own, LAMBDA p :
                         \/ enumCall.includeCustom
                         \/ ~p.meta.isCustomHandled
                         \/ p.meta.isCustomHandledOrphan)
        IN  /\ VisitNames = [k \in 1..Len(shown) |-> shown[k].name]
            /\ [k \in 1..Len(own) |-> own[k].name]
                   = [k \in 1..Len(Declared(enumCall.cls)) |-> Declared(enumCall.cls)[k].name]
            /\ enumCall.includeCustom => Len(enumCall.visits) = Len(Declared(enumCall.cls))
            /\ enumCall.resolved = <<enumCall.cls>>
            /\ \A a \in 1..Len(enumCall.visits) : enumCall.visits[a].owner = enumCall.cls

\* an enumeration without superclasses of a class that has a base class and a
\* custom-handled property
C8_Witness ==
    /\ enumCall.called /\ ~enumCall.wantSuper /\ enumCall.err = "none"
    /\ enumCall.cls = "T:Leaf"
    /\ ~enumCall.includeCustom
    /\ Len(enumCall.visits) = 2

\* C9: of the properties the schema JSON flags custom-handled, one not flagged
\* orphan is visited exactly when includeCustom is true, and one flagged
\* custom-handled orphan is visited also when includeCustom is false.
C9_CustomHandledFilter ==
    (enumCall.called /\ enumCall.err = "none") =>
        \A k \in 1..Len(enumCall.resolved) :
            LET c == enumCall.resolved[k] IN
            \A j \in 1..Len(Declared(c)) :
                LET p == Declared(c)[j] IN
                p.json.isCustomHandled =>
                    IF p.json.isCustomHandledOrphan
                    THEN Visited(c, p.name)
                    ELSE Visited(c, p.name) <=> enumCall.includeCustom

\* ---- enumeration that fails part of the way ----

\* some class on the first-base chain of the enumerated class cannot be resolved
ChainFails(m, c) ==
    \E k \in 1..Len(FirstBaseChain(m, c)) : FirstBaseChain(m, c)[k] \notin Loadable(m)

\* C11: when the metadata of the class or of any class on its first-base chain
\* cannot be resolved, forEach with wantSuper = true fails with MetaDataNotFound
\* and the visitor has been invoked for no property at all, not even for the
\* properties of nearer classes whose metadata did resolve.
C11_NoPartialEnumeration ==
    (enumCall.called /\ enumCall.wantSuper
        /\ ChainFails(enumCall.iModel, enumCall.cls))
    => /\ enumCall.err = "MetaDataNotFound"
       /\ enumCall.visits = <<>>

-----------------------------------------------------------------------------
(* Properties of the lookup failure path *)

\* some lookup along the first-base chain of the class finds nothing: no cached
\* entry and nothing to materialize
Unresolvable(m, c) ==
    \E k \in 1..Len(FirstBaseChain(m, c)) : ~CanFind(registry, m, FirstBaseChain(m, c)[k])

MetaOps == {"new", "copyForEdit", "toJSON", "forEachProperty"}

\* C10: when a lookup made for the constructor, for toJSON or for an enumeration
\* finds no metadata, the caller gets MetaDataNotFound: no instance is constructed,
\* toJSON returns nothing, and no entry is cached under the unknown name.  The
\* error is raised in no other case.
C10_LookupFailurePropagates ==
    /\ lastOp.op \in MetaOps =>
           /\ (Unresolvable(lastOp.iModel, lastOp.cls) /\ lastOp.err # "TypeError")
                  => lastOp.err = "MetaDataNotFound"
           /\ lastOp.err = "MetaDataNotFound" =>
                  /\ Unresolvable(lastOp.iModel, lastOp.cls)
                  /\ lastOp.op \in {"new", "copyForEdit"} => lastOp.ent = 0
                  /\ lastOp.op = "toJSON" => lastOp.out = <<>>
    /\ \A m \in IModels : DOMAIN registry[m] \subseteq Loadable(m)

\* toJSON() of an instance whose class its iModel does not know has just failed
C10_Witness ==
    /\ lastOp.op = "toJSON"
    /\ lastOp.err = "MetaDataNotFound"
    /\ lastOp.cls = "T:Leaf"

-----------------------------------------------------------------------------
(* Properties of construction and serialization *)

\* the classes of the first-base chain, and all the properties they declare
ChainDeclared(m, c) ==
    UNION { {Declared(FirstBaseChain(m, c)[k])[j].name :
                 j \in 1..Len(Declared(FirstBaseChain(m, c)[k]))} :
            k \in 1..Len(FirstBaseChain(m, c)) }

DeepJSON(val, h) ==
    [k \in 1..Len(val) |-> [name |-> val[k].name, val |-> Deep(val[k].val, h)]]

\* C13: an Entity is constructed from a bag, toJSON() is called on it, a second
\* Entity of the same class is constructed from that output, and toJSON() of the
\* second Entity is deep-equal to the first output, key by key.
C13_RoundTripIsIdempotent ==
    [][(lastOp'.op = "fromJSON" /\ nWrites = 0 /\ nMutations = 0) =>
           /\ lastOp'.err = "none"
           /\ lastOp'.out = toJSON(registry, entities[lastOp'.src]).val
           /\ toJSON(registry', entities'[lastOp'.ent]).err = "none"
           /\ DeepJSON(toJSON(registry', entities'[lastOp'.ent]).val, heap')
                  = DeepJSON(lastOp'.out, heap)]_vars

\* a second Entity has just been constructed from the toJSON() output of an Entity
\* that holds a string, a point, an array of points and an identifier
C13_Witness ==
    /\ lastOp.op = "fromJSON" /\ lastOp.err = "none"
    /\ nWrites = 0 /\ nMutations = 0
    /\ lastOp.bag["code"] = Prim("'s'")
    /\ IsRef(lastOp.bag["origin"]) /\ IsRef(lastOp.bag["path"]) /\ IsRef(lastOp.bag["parent"])
    /\ Len(lastOp.out) = 7

-----------------------------------------------------------------------------
(* Properties of the Property Marshaler *)

PassThroughTypes ==
    {PrimitiveTypeCode_Boolean, PrimitiveTypeCode_Double, PrimitiveTypeCode_Integer,
     PrimitiveTypeCode_String}

PointTypes == {PrimitiveTypeCode_Point2d, PrimitiveTypeCode_Point3d}

PointKind(pt) == IF pt = PrimitiveTypeCode_Point2d THEN "Point2d" ELSE "Point3d"

IsArray(v, h) == IsRef(v) /\ h[v.a].kind = "Array"

\* C14: for boolean, double, integer and string metadata createProperty returns the
\* raw value unchanged whenever the raw value is neither undefined nor null: also
\* for false, for 0 and for the empty string.
C14_ScalarsPassThrough ==
    (/\ marshalCall.called
     /\ marshalCall.meta.primitiveType \in PassThroughTypes
     /\ marshalCall.jsonObj \notin {undefined, Prim("null")})
    => /\ marshalCall.err = "none"
       /\ marshalCall.val = marshalCall.jsonObj

\* what a reader sees of a point object
PointTree(obj) ==
    [k |-> obj.kind,
     sub |-> [j \in 1..Len(obj.elems) |-> [k |-> obj.elems[j].k, sub |-> <<>>]]]

C16_EitherBoundMakesSequence ==
    (/\ marshalCall.called
     /\ marshalCall.meta.primitiveType \in PointTypes
     /\ IsArray(marshalCall.jsonObj, heap))
    => /\ marshalCall.err = "none"
       /\ IsArray(marshalCall.val, heap)
              <=> (marshalCall.meta.minOccurs # Null \/ marshalCall.meta.maxOccurs # Null)
       /\ IsArray(marshalCall.val, heap)
              => Len(heap[marshalCall.val.a].elems) = Len(heap[marshalCall.jsonObj.a].elems)

\* C17: createProperty raises no error, whatever the metadata and whatever the
\* shape of the raw value.
C17_CreatePropertyNeverFails ==
    marshalCall.called => marshalCall.err = "none"

C19_ToJSONEmitsEnumeratedSlots ==
    [][(lastOp'.op = "toJSON" /\ lastOp'.err = "none") =>
           LET e == entities[lastOp'.ent]
               out == lastOp'.out
           IN  /\ {out[k].name : k \in 1..Len(out)} = {"classFullName"} \cup EnumeratedNames(e)
               /\ Cardinality({out[k].name : k \in 1..Len(out)}) = Len(out)
               /\ {n \in PropNames : e.slots[n] # NoSlot} = EnumeratedNames(e)
               /\ \A k \in 1..Len(out) :
                      out[k].val = IF out[k].name = "classFullName" THEN Prim(e.cls)
                                   ELSE e.slots[out[k].name]
               /\ entities' = entities
               /\ heap' = heap]_vars

\* toJSON() has just returned for an Entity one of whose slots was assigned after
\* construction
C19_Witness ==
    /\ lastOp.op = "toJSON" /\ lastOp.err = "none"
    /\ entities[lastOp.ent].slots["code"] = Prim("'w'")
    /\ \E k \in 1..Len(lastOp.out) :
           lastOp.out[k].name = "code" /\ lastOp.out[k].val = Prim("'w'")
    /\ Len(lastOp.out) = 7

-----------------------------------------------------------------------------
(* Properties of the recursion along the base-class chain *)

\* following baseClasses[0] from the class comes back to a class already passed
RECURSIVE ReachesCycle(_, _, _)
ReachesCycle(m, c, seen) ==
    IF c \notin Loadable(m) \/ ClassJson[c].baseClasses = <<>> THEN FALSE
    ELSE IF c \in seen THEN TRUE
    ELSE ReachesCycle(m, ClassJson[c].baseClasses[1], seen \cup {c})

HasCycle(m, c) == ReachesCycle(m, c, {})

NoDuplicates(seq) == Cardinality(Range(seq)) = Len(seq)

\* the enumeration started last has ended
Ended == enumCall.called /\ frames = <<>>

-----------------------------------------------------------------------------
(* Properties of the Class Metadata Registry *)

\* the lookups of the name that have returned
Returned(c) == {p \in 1..MaxCallers : lookup.calls[p].pc = "done" /\ lookup.calls[p].name = c}

\* C21: when several first lookups of one class name run concurrently against a
\* registry without an entry for it, they converge: the cache holds one Class
\* Metadata for the name, every lookup that has returned, whether it ran
\* concurrently or later, holds that very object, and a materialization that
\* lost is held by no lookup.
C21_FirstLookupsConverge ==
    /\ DOMAIN lookup.ident = DOMAIN registry[LookupModel]
    /\ \A c \in LookupClasses :
           /\ \A p \in Returned(c) :
                  IF c \in Loadable(LookupModel)
                  THEN /\ c \in DOMAIN registry[LookupModel]
                       /\ lookup.calls[p].got = lookup.ident[c]
                       /\ lookup.calls[p].got \in 1..lookup.made
                  ELSE /\ c \notin DOMAIN registry[LookupModel]
                       /\ lookup.calls[p].got = 0
           /\ \A p, q \in Returned(c) : lookup.calls[p].got = lookup.calls[q].got
    /\ \A c, d \in DOMAIN lookup.ident : c # d => lookup.ident[c] # lookup.ident[d]

\* two lookups of one name both missed, both materializations arrived, and both
\* lookups have returned
C21_Witness ==
    /\ lookup.made = 2
    /\ DOMAIN registry[LookupModel] = {"T:Leaf"}
    /\ Returned("T:Leaf") = {1, 2}
    /\ \A p \in 1..MaxCallers : ~lookup.calls[p].hit

\* the find call of caller p that this step begins
Begins(p) == lookup'.calls[p] # lookup.calls[p] /\ lookup.calls[p].pc # "materializing"

\* C22: a find that returns Class Metadata leaves it in the cache, and the entry
\* of a name, once cached, is never removed, replaced or changed: every find
\* begun afterwards returns that same object and requests no materialization, and
\* neither an enumeration nor a createProperty call changes any cached Class
\* Metadata or Property Metadata (an enumeration adds only the classes it had to
\* materialize).
C22_CachedEntryIsPermanent ==
    [][/\ \A c \in DOMAIN registry[LookupModel] :
              /\ c \in DOMAIN registry'[LookupModel]
              /\ registry'[LookupModel][c] = registry[LookupModel][c]
              /\ lookup'.ident[c] = lookup.ident[c]
       /\ \A c \in DOMAIN registry'[LookupModel] :
              registry'[LookupModel][c] = EntityMetaData(ClassJson[c])
       /\ \A p \in 1..MaxCallers :
              /\ (lookup'.calls[p].pc = "done" /\ lookup'.calls[p].got # 0)
                     => /\ lookup'.calls[p].name \in DOMAIN registry'[LookupModel]
                        /\ lookup'.calls[p].got = lookup'.ident[lookup'.calls[p].name]
              /\ (Begins(p) /\ lookup'.calls[p].name \in DOMAIN registry[LookupModel])
                     => /\ lookup'.calls[p].pc = "done"
                        /\ lookup'.calls[p].got = lookup.ident[lookup'.calls[p].name]
                        /\ lookup'.made = lookup.made
                        /\ registry' = registry
       /\ enumCall' # enumCall =>
              /\ lookup'.made - lookup.made
                     = Cardinality(DOMAIN registry'[LookupModel] \ DOMAIN registry[LookupModel])
              /\ \A k \in 1..Len(enumCall'.resolved) :
                     enumCall'.resolved[k] \in Loadable(LookupModel)
                         => enumCall'.resolved[k] \in DOMAIN registry'[LookupModel]
       /\ marshalCall' # marshalCall => registry' = registry /\ lookup' = lookup]_vars

\* a class was materialized once, by an enumeration; a later find has returned the
\* cached object and a property of the cached class has marshaled a value
C22_Witness ==
    /\ lookup.made = 1
    /\ enumCall.called /\ enumCall.cls = "T:Base" /\ enumCall.err = "none"
    /\ marshalCall.called
    /\ \E p \in 1..MaxCallers :
           /\ lookup.calls[p].hit
           /\ lookup.calls[p].name = "T:Base"
           /\ lookup.calls[p].got = lookup.ident["T:Base"]

-----------------------------------------------------------------------------
(* Properties of EditCommandAdmin *)

\* the step is a runCommand call, made directly or by startCommand
RunsCommand == admin'.runs = admin.runs + 1

\* the hooks runCommand invokes when `old` is active and `cmd` is given
HooksOf(old, cmd) ==
    (IF old # 0 THEN <<<<"onFinish", old>>>> ELSE <<>>)
      \o (IF cmd # 0 THEN <<<<"onStart", cmd>>>> ELSE <<>>)

\* the commands runCommand has started and not finished
Running(a) == {i \in 1..Len(a.instances) : a.instances[i].starts > a.instances[i].finishes}

C24_CommandsOnlyWithIpc ==
    /\ (admin.last.op = "register" /\ ~admin.last.ipc) =>
           /\ admin.last.err = "Error"
           /\ admin.commands = <<>>
    /\ admin.commands # <<>> => admin.handlerRegistered = 1

\* C25: startCommand with a commandId that commands does not hold (no class with
\* that id was registered, the class registered has the empty commandId, or the
\* id was removed by unRegister) fails with BadArg 'Command Not Found' and changes
\* nothing: the same instance is active, it has received no onFinish(), and no
\* instance was constructed or started.
C25_UnknownCommandChangesNothing ==
    [][/\ \A commandId \in CommandIds :
              (admin' = startCommand(admin, commandId) /\ commandId \notin DOMAIN admin.commands)
              => /\ admin'.last.err = BadArg("Command Not Found")
                 /\ admin'.last.trace = <<>>
                 /\ admin'.activeCommand = admin.activeCommand
                 /\ admin'.instances = admin.instances
                 /\ admin'.commands = admin.commands
                 /\ [admin' EXCEPT !.last = admin.last] = admin
       /\ "" \notin DOMAIN admin'.commands
       /\ \A commandId \in DOMAIN admin'.commands :
              CommandId(admin'.commands[commandId]) = commandId]_vars

\* a command of a class that was registered and then removed by unRegister is
\* active, and a startCommand with the removed id has just failed
C25_Witness ==
    /\ admin.last.op = "startCommand"
    /\ admin.last.arg = "a"
    /\ admin.last.err = BadArg("Command Not Found")
    /\ admin.commands = <<>>
    /\ admin.handlerRegistered = 1
    /\ admin.activeCommand # 0
    /\ admin.instances[admin.activeCommand].cls = "CmdA"
    /\ ~admin.instances[admin.activeCommand].finished

\* C26 as stated: call is dispatched only to the active command: it fails with
\* BadArg when no command is active or when the active command has no function of
\* that name, and otherwise invokes the method on the active command and never on
\* a command that has already received onFinish().
C26_NeverDispatchedAfterOnFinish ==
    /\ admin.last.op = "call" =>
           \/ admin.last.err = BadArg("No active command") /\ admin.activeCommand = 0
           \/ admin.last.err = BadArg("Method not found") /\ ~IsFunction(admin.last.arg)
           \/ admin.last.err = "none" /\ admin.last.target = admin.activeCommand
    /\ \A i \in 1..Len(admin.instances) : ~admin.instances[i].lateDispatch

\* C26 amended: call fails with BadArg 'No active command' when no command is
\* active and with BadArg when the active command has no function of that name,
\* changing nothing; otherwise it invokes the method on the command that is active
\* at the time of the call and on no other, and leaves it active.  A command that
\* has received onFinish() is dispatched to only while it is the active command:
\* after call('onFinish'), which finishes the active command without replacing it,
\* or after runCommand was given an instance it had been given before.
C26_DispatchedToActiveCommandOnly ==
    [][/\ \A methodName \in MethodNames :
              admin' = call(admin, methodName) =>
                  IF admin.activeCommand = 0
                  THEN /\ admin'.last.err = BadArg("No active command")
                       /\ [admin' EXCEPT !.last = admin.last] = admin
                  ELSE IF ~IsFunction(methodName)
                  THEN /\ admin'.last.err = BadArg("Method not found")
                       /\ [admin' EXCEPT !.last = admin.last] = admin
                  ELSE /\ admin'.last.err = "none"
                       /\ admin'.last.target = admin.activeCommand
                       /\ admin'.activeCommand = admin.activeCommand
                       /\ \A i \in 1..Len(admin.instances) :
                              i # admin.activeCommand => admin'.instances[i] = admin.instances[i]
       /\ \A i \in 1..Len(admin'.instances) :
              /\ ~admin'.instances[i].staleDispatch
              /\ admin'.instances[i].lateDispatch
                     => (admin'.instances[i].viaCall \/ admin'.reran)
              /\ (admin'.instances[i].finished /\ i # admin'.activeCommand) =>
                     (admin'.instances[i].lateDispatch = admin.instances[i].lateDispatch)]_vars

\* a method has just been invoked on the third command started, after the first two
\* were replaced, and no call has reached those two since
C26_Witness ==
    /\ admin.last.op = "call" /\ admin.last.err = "none" /\ admin.last.arg = "ping"
    /\ admin.last.target = 3 /\ admin.activeCommand = 3
    /\ admin.instances[1].finishes = 1 /\ admin.instances[2].finishes = 1
    /\ ~admin.instances[3].finished

-----------------------------------------------------------------------------
(* Properties of construction over shadowed names and foreign bag keys *)

\* the classes of the first-base chain that declare the name as a property that is
\* not custom-handled, nearest class first
Declaring(m, c, n) ==
    SelectSeq(FirstBaseChain(m, c),
              LAMBDA d : \E j \in 1..Len(Declared(d)) :
                             Declared(d)[j].name = n /\ ~Declared(d)[j].json.isCustomHandled)

\* C27: when a name is declared on a class and on an ancestor in its first-base
\* chain, forEach with wantSuper = true calls the visitor once for each declaring
\* class, the derived class first, and the slot the constructor leaves is the
\* value made by the metadata of the farthest declaring ancestor, not the one made
\* by the metadata of the derived class.
C27_FarthestDeclarationWins ==
    (lastOp.op = "new" /\ lastOp.err = "none") =>
        LET e == entities[lastOp.ent]
            r == forEach(registry, e.iModel, e.cls, TRUE, FALSE)
        IN  \A n \in PropNames :
                LET decl == Declaring(e.iModel, e.cls, n)
                    vis == SelectSeq(r.visits, LAMBDA v : v.name = n)
                IN  Len(decl) >= 2 =>
                        /\ [k \in 1..Len(vis) |-> vis[k].owner] = decl
                        /\ \A k \in 1..Len(vis) :
                               vis[k].meta = registry[e.iModel][decl[k]].properties[
                                                 NameIndex(decl[k], n)].meta
                        /\ LET far == createProperty(vis[Len(vis)].meta, Get(lastOp.bag, n), heap)
                               near == createProperty(vis[1].meta, Get(lastOp.bag, n), heap)
                           IN  /\ far.err = "none"
                               /\ Deep(e.slots[n], heap) = Deep(far.val, far.heap)
                               /\ Deep(near.val, near.heap) # Deep(far.val, far.heap)
                                      => Deep(e.slots[n], heap) # Deep(near.val, near.heap)

\* an Entity of a class that declares `code` as a point, below a class that
\* declares it as a string, has just been constructed from a bag with a string
\* under `code`: the slot holds the string, and the point made first is garbage
C27_Witness ==
    /\ lastOp.op = "new" /\ lastOp.err = "none"
    /\ lastOp.cls = "T:Shadow"
    /\ lastOp.bag["code"] = Prim("'s'")
    /\ entities[lastOp.ent].slots["code"] = Prim("'s'")
    /\ \E a \in 1..Len(heap) : heap[a].kind = "Point3d"

\* what a reader sees through a key of a bag the storage collaborator made
RawDeep(n) == Deep(RawValue(n, <<>>).val, RawValue(n, <<>>).heap)

\* the names the schema JSON flags custom-handled and not orphan on the chain
CustomHandled(m, c) ==
    UNION { {Declared(FirstBaseChain(m, c)[k])[j].name :
                 j \in {i \in 1..Len(Declared(FirstBaseChain(m, c)[k])) :
                          /\ Declared(FirstBaseChain(m, c)[k])[i].json.isCustomHandled
                          /\ ~Declared(FirstBaseChain(m, c)[k])[i].json.isCustomHandledOrphan}} :
            k \in 1..Len(FirstBaseChain(m, c)) }

\* C28: the constructor takes from the bag the iModel and the properties the
\* enumeration visits, nothing else: a bag key that no class of the chain
\* declares, or that names a custom-handled property that is not an orphan, gets
\* no slot and no key in toJSON(); and the bag, with every object it refers to,
\* is after the construction what it was before.
C28_OnlyEnumeratedKeysAreCopied ==
    [][(lastOp'.op \in {"new", "copyForEdit"} /\ lastOp'.err = "none") =>
           LET e == entities'[lastOp'.ent]
               out == toJSON(registry', e).val
               visits == forEach(registry', e.iModel, e.cls, TRUE, FALSE).visits
               foreign == (SlotNames \ ChainDeclared(e.iModel, e.cls))
                              \cup CustomHandled(e.iModel, e.cls)
           IN  /\ e.iModel = lastOp'.iModel
               /\ \A n \in SlotNames :
                      e.slots[n] # NoSlot <=> \E k \in 1..Len(visits) : visits[k].name = n
               /\ \A n \in foreign :
                      /\ e.slots[n] = NoSlot
                      /\ \A k \in 1..Len(out) : out[k].name # n
               /\ \A a \in 1..Len(heap) : heap'[a] = heap[a]
               /\ lastOp'.op = "new" =>
                      \A n \in SlotNames :
                          \/ lastOp'.bag[n] \in {NoSlot, Prim("null")}
                          \/ Deep(lastOp'.bag[n], heap') = RawDeep(n)
               /\ lastOp'.op = "copyForEdit" =>
                      /\ entities'[lastOp'.src] = entities[lastOp'.src]
                      /\ View(entities'[lastOp'.src], heap')
                             = View(entities[lastOp'.src], heap)]_vars

\* an Entity has just been constructed from a bag that holds, beside a declared
\* property, a key no class declares, a key of a mixin and a custom-handled one
C28_Witness ==
    /\ lastOp.op = "new" /\ lastOp.err = "none" /\ lastOp.cls = "T:Leaf"
    /\ lastOp.bag["bogus"] # NoSlot /\ lastOp.bag["mixProp"] # NoSlot
    /\ lastOp.bag["secret"] # NoSlot
    /\ lastOp.bag["origin"] = NoSlot
    /\ entities[lastOp.ent].slots["code"] = Prim("'s'")
    /\ entities[lastOp.ent].slots["bogus"] = NoSlot
    /\ entities[lastOp.ent].slots["secret"] = NoSlot

\* C29 as stated: setPersistent() on an Entity that is already persistent leaves
\* isPersistent() true and every slot as it was, and completes without an error.
C29_SetPersistentTwiceSucceeds ==
    (lastOp.op = "setPersistent") =>
        /\ lastOp.err = "none"
        /\ isPersistent(entities[lastOp.ent])
        /\ entities[lastOp.ent].slots = entities[lastOp.ent].slotsAtFreeze

\* C29 amended: the first setPersistent() on an Entity completes and leaves it
\* persistent and frozen; every later one leaves isPersistent() true, every slot
\* and the iModel as they were, and what the slots refer to untouched, but does
\* not complete: the assignment to the persistent flag of the frozen instance
\* throws TypeError.
C29_SetPersistentTwiceThrows ==
    [][\A i \in 1..Len(entities) :
           (lastOp'.op = "setPersistent" /\ lastOp'.ent = i) =>
               /\ isPersistent(entities'[i])
               /\ entities'[i].frozen
               /\ entities'[i].slots = entities[i].slots
               /\ entities'[i].iModel = entities[i].iModel
               /\ heap' = heap
               /\ IF isPersistent(entities[i])
                  THEN /\ lastOp'.err = "TypeError"
                       /\ entities'[i] = entities[i]
                  ELSE lastOp'.err = "none"]_vars

\* setPersistent() has just been invoked for the second time on an Entity
C29_Witness ==
    /\ lastOp.op = "setPersistent"
    /\ lastOp.err = "TypeError"
    /\ isPersistent(entities[lastOp.ent])
    /\ entities[lastOp.ent].slots["code"] = Prim("'s'")

-----------------------------------------------------------------------------
(* Properties of _loadDXT *)

\* the sum of the compressed sizes of levels 0..n-1 of a texture
RECURSIVE SizeOfLevelsBelow(_, _, _, _)
SizeOfLevelsBelow(format, width, height, n) ==
    IF n = 0 THEN 0
    ELSE SizeOfLevelsBelow(format, width, height, n - 1)
           + CalculateTextureLevelSizeInBytes(format, ShiftRight(width, n - 1),
                                              ShiftRight(height, n - 1))

\* C30: for every mip level i that _loadDXT uploads, the data view has the
\* compressed size of the level's own dimensions, width >> i by height >> i, and
\* begins at the sum of the sizes of levels 0..i-1, so that successive levels read
\* adjacent byte ranges that do not overlap.
C30_LevelSizedFromOwnDimensions ==
    \A k \in 1..Len(dxt.levels) :
        LET l == dxt.levels[k] IN
        /\ l.level = k - 1
        /\ l.width = ShiftRight(dxt.width, l.level)
        /\ l.height = ShiftRight(dxt.height, l.level)
        /\ l.size = CalculateTextureLevelSizeInBytes(dxt.internalFormat, l.width, l.height)
        /\ l.offset = SizeOfLevelsBelow(dxt.internalFormat, dxt.width, dxt.height, l.level)
        /\ k > 1 => l.offset = dxt.levels[k - 1].offset + dxt.levels[k - 1].size

\* a finished upload of a texture with more than one level whose levels differ in
\* compressed size
C30_Witness ==
    /\ dxt.pc = "done"
    /\ Len(dxt.levels) = dxt.numLevels
    /\ dxt.numLevels > 1
    /\ CalculateTextureLevelSizeInBytes(dxt.internalFormat, dxt.width, dxt.height)
         # CalculateTextureLevelSizeInBytes(dxt.internalFormat, ShiftRight(dxt.width, 1),
                                            ShiftRight(dxt.height, 1))

====
